---- MODULE Spec2Model ----
(***************************************************************************)
(* Model of the tmemo spaced-repetition engine: the FSRS memory model and  *)
(* the review-log encoding (src/src/fsrs.rs), the card identity and the    *)
(* TSV row (src/src/card.rs), the generator (src/src/rand.rs) and the      *)
(* deck's review session, rescheduling and reconciliation                  *)
(* (src/src/deck.rs).                                                      *)
(*                                                                         *)
(* f64 values are modelled as fixed-point integers with SCALE units per    *)
(* 1.0; TLC integers are 32 bits wide, so products and quotients are       *)
(* computed piecewise and 64-bit values are kept as limbs.  Strings are    *)
(* sequences of characters or of small character codes.                    *)
(***************************************************************************)
EXTENDS Integers, Sequences, FiniteSets, Bags, TLC

VARIABLES
    cards,             \* Deck.cards: Seq of Card
    orphans,           \* Deck.orphans: Seq of Card
    track_review_history, \* Deck.track_review_history
    params,            \* Deck.params: [w, target_retention]
    review_index,      \* Deck.review_index: None or a position in review_indices
    review_indices,    \* Deck.review_indices: Seq of indices into cards (0-based)
    review_date,       \* Deck.review_date: None or a day
    status,            \* "ok", or "panic" once an unwrap / index panicked
    last,              \* the last operation, its inputs and its result
    prev,              \* cards, orphans and active set before the last operation
    session,           \* active cards at the session's start, Discard results since
    nops,              \* number of operations the run may still perform
    generator,         \* the caller's SplitMix64 (its state) in a seeded run
    twin,              \* a second run of the same operations from the same seed
    base_cards,        \* Deck.base_cards: Seq of the root cards with cloze spans
    app                \* ApplicationState: current_state, undo history and index

vars == <<cards, orphans, track_review_history, params, review_index,
          review_indices, review_date, status, last, prev, session, nops,
          generator, twin, base_cards, app>>

\* Option::None of an index or a date (indices and days are >= 0 in the model)
None == 0 - 1

----------------------------------------------------------------------------
\* Fixed-point arithmetic standing for f64

SCALE == 10^4

Abs(x) == IF x < 0 THEN -x ELSE x
Sign(x) == IF x < 0 THEN -1 ELSE 1
Max(a, b) == IF a >= b THEN a ELSE b
Min(a, b) == IF a <= b THEN a ELSE b

\* a * b for a, b >= 0
MulU(a, b) ==
    LET a1 == a \div SCALE
        a0 == a % SCALE
        b1 == b \div SCALE
        b0 == b % SCALE
    IN  a1 * b1 * SCALE + a1 * b0 + a0 * b1 + (a0 * b0) \div SCALE

Mul(a, b) == Sign(a) * Sign(b) * MulU(Abs(a), Abs(b))

RECURSIVE DivDigits(_, _, _)
DivDigits(r, b, n) ==
    IF n = 0 THEN 0
    ELSE LET d == (r * 10) \div b
             r2 == (r * 10) % b
         IN  d * 10^(n - 1) + DivDigits(r2, b, n - 1)

\* a / b for a >= 0, b > 0
DivU(a, b) == (a \div b) * SCALE + DivDigits(a % b, b, 4)

Div(a, b) == Sign(a) * Sign(b) * DivU(Abs(a), Abs(b))

\* f64::round: to the nearest integer, halves away from zero
Round(x) == Sign(x) * ((Abs(x) + SCALE \div 2) \div SCALE)

LN2 == 6931
E == 27183

RECURSIVE LnReduce(_, _)
\* <<m, k>> with x = m * 2^k and SCALE <= m < 2 * SCALE
LnReduce(x, k) ==
    IF x >= 2 * SCALE THEN LnReduce(x \div 2, k + 1)
    ELSE IF x < SCALE THEN LnReduce(x * 2, k - 1)
    ELSE <<x, k>>

\* f64::ln for x > 0
Ln(x) ==
    LET mk == LnReduce(x, 0)
        m == mk[1]
        z == DivU(m - SCALE, m + SCALE)
        z2 == MulU(z, z)
        z3 == MulU(z2, z)
        z5 == MulU(z3, z2)
        z7 == MulU(z5, z2)
        z9 == MulU(z7, z2)
    IN  mk[2] * LN2 + 2 * (z + z3 \div 3 + z5 \div 5 + z7 \div 7 + z9 \div 9)

RECURSIVE ExpInt(_)
ExpInt(n) == IF n = 0 THEN SCALE ELSE MulU(E, ExpInt(n - 1))

RECURSIVE ExpSeries(_, _, _, _)
\* sum of the Taylor terms f^i / i! for i = k .. 9, term = f^(k-1) / (k-1)!
ExpSeries(f, term, k, acc) ==
    IF k > 9 \/ term = 0 THEN acc
    ELSE LET t == MulU(term, f) \div k
         IN  ExpSeries(f, t, k + 1, acc + t)

ExpU(y) == MulU(ExpInt(y \div SCALE), ExpSeries(y % SCALE, SCALE, 1, SCALE))

\* E.powf(y)
Exp(y) == IF y >= 0 THEN ExpU(y) ELSE DivU(SCALE, ExpU(-y))

\* x.powf(y) for x > 0
Powf(x, y) == Exp(Mul(y, Ln(x)))

----------------------------------------------------------------------------
\* Memory model (src/src/fsrs.rs)

ReviewAnswer == {"Again", "Hard", "Good", "Easy", "Bury"}

FACTOR == (19 * SCALE) \div 81
DECAY == -5000
INV_DECAY == Div(SCALE, DECAY)
DEFAULT_W == <<5701, 14436, 41386, 109355, 51443, 12006, 8627, 362, 16290,
               1342, 10166, 21174, 839, 3204, 14676, 2190, 28237>>
RANDOMNESS == 1000

\* params.w[i] with the source's 0-based index
W(p, i) == p.w[i + 1]

FSRSParams_new == [w |-> DEFAULT_W, target_retention |-> 9000]

Clamp(x, lo, hi) == IF x < lo THEN lo ELSE IF x > hi THEN hi ELSE x

new_difficulty(d, g, p) ==
    LET new_d == d - Mul(W(p, 6), g - 3 * SCALE)
        new_d2 == Mul(W(p, 7), W(p, 4) - new_d) + new_d
    IN  Clamp(new_d2, 1 * SCALE, 10 * SCALE)

new_stability_correct(difficulty, stability, retention, answer, p) ==
    LET hard_penalty == IF answer = "Hard" THEN W(p, 15) ELSE SCALE
        easy_bonus == IF answer = "Easy" THEN W(p, 16) ELSE SCALE
        f1 == Mul(Exp(W(p, 8)), 11 * SCALE - difficulty)
        f2 == Mul(f1, Powf(stability, -W(p, 9)))
        f3 == Mul(f2, Exp(Mul(W(p, 10), SCALE - retention)) - SCALE)
        f4 == Mul(Mul(f3, hard_penalty), easy_bonus)
    IN  Mul(stability, f4 + SCALE)

new_stability_incorrect(difficulty, stability, retention, p) ==
    LET f1 == Mul(W(p, 11), Powf(difficulty, -W(p, 12)))
        f2 == Mul(f1, Powf(stability + SCALE, W(p, 13)) - SCALE)
    IN  Mul(f2, Exp(Mul(W(p, 14), SCALE - retention)))

\* the grade of an answer; "panic" stands for panic!("unexpected bury")
grade_f64(answer) ==
    CASE answer = "Easy" -> 4 * SCALE
      [] answer = "Good" -> 3 * SCALE
      [] answer = "Hard" -> 2 * SCALE
      [] answer = "Again" -> 1 * SCALE
      [] answer = "Bury" -> "panic"

power_forgetting_curve(delta_t, stability) ==
    Powf(SCALE + Div(Mul(FACTOR, delta_t), stability), DECAY)

FSRSState_new(date) ==
    [date_added |-> date, last_review |-> date, review_date |-> date,
     difficulty |-> 0, stability |-> 0, buried |-> FALSE,
     complete_history |-> TRUE, review_log |-> <<>>]

\* A variant of first_review that looks at the log only
first_review_log_only(s) == s.review_log = <<>>

\* FSRSState::first_review
first_review(s) == s.complete_history /\ s.review_log = <<>>

retention(s, date) ==
    LET t0 == (date - s.last_review) * SCALE
        t == IF t0 >= 1 * SCALE THEN t0 ELSE 1 * SCALE
    IN  power_forgetting_curve(t, s.stability)

interval(s, p) ==
    Max(Mul(Div(s.stability, FACTOR), Powf(p.target_retention, INV_DECAY) - SCALE),
        1 * SCALE)

update_review_success(s, date, fraction, p) ==
    LET days == Round(Mul(interval(s, p), fraction))
    IN  [s EXCEPT !.last_review = date, !.review_date = date + days]

update_review_failure(s, date) ==
    [s EXCEPT !.review_date = date, !.last_review = date]

\* <<state, result>>; result "Panic" stands for panic!("unexpected bury")
handle_initial_review(s, answer, date, fraction, p) ==
    CASE answer = "Easy" ->
           <<update_review_success(
                [s EXCEPT !.stability = W(p, 3), !.difficulty = W(p, 4) - W(p, 5)],
                date, fraction, p), "Discard">>
      [] answer = "Good" ->
           <<update_review_success(
                [s EXCEPT !.stability = W(p, 2), !.difficulty = W(p, 4)],
                date, fraction, p), "Discard">>
      [] answer = "Hard" ->
           <<update_review_success(
                [s EXCEPT !.stability = W(p, 1), !.difficulty = W(p, 4) + W(p, 5)],
                date, fraction, p), "Discard">>
      [] answer = "Again" ->
           <<update_review_failure(
                [s EXCEPT !.stability = W(p, 0),
                          !.difficulty = W(p, 4) + Mul(W(p, 5), 2 * SCALE)],
                date), "Again">>
      [] answer = "Bury" -> <<s, "Panic">>

\* A variant of review that writes the log entry before it looks at Bury
review_log_first(s, answer, date, track_history, fraction, p) ==
    LET s1 == IF track_history
              THEN [s EXCEPT !.review_log =
                       Append(@, [answer |-> answer, day |-> date])]
              ELSE [s EXCEPT !.complete_history = FALSE]
    IN  <<[s1 EXCEPT !.buried = TRUE], "Discard">>

\* A variant of review that keeps only the newest log entry
review_log_newest(s, answer, date, track_history, fraction, p) ==
    IF answer = "Bury" THEN <<[s EXCEPT !.buried = TRUE], "Discard">>
    ELSE
      LET was_first == first_review(s)
          s1 == IF track_history
                THEN [s EXCEPT !.review_log =
                         <<[answer |-> answer, day |-> date]>>]
                ELSE [s EXCEPT !.complete_history = FALSE]
      IN  IF was_first THEN handle_initial_review(s1, answer, date, fraction, p)
          ELSE IF answer = "Again"
          THEN LET r == retention(s1, date)
                   s2 == [s1 EXCEPT !.stability =
                            new_stability_incorrect(s1.difficulty, s1.stability, r, p)]
                   s3 == [s2 EXCEPT !.difficulty =
                            new_difficulty(s2.difficulty, grade_f64(answer), p)]
               IN  <<update_review_failure(s3, date), "Again">>
          ELSE LET r == retention(s1, date)
                   s2 == [s1 EXCEPT !.stability =
                            new_stability_correct(s1.difficulty, s1.stability, r,
                                                  answer, p)]
                   s3 == [s2 EXCEPT !.difficulty =
                            new_difficulty(s2.difficulty, grade_f64(answer), p)]
               IN  <<update_review_success(s3, date, fraction, p), "Discard">>

\* A variant of review that looks at Bury after the first-review dispatch
review_bury_late(s, answer, date, track_history, fraction, p) ==
    LET was_first == first_review(s)
        s1 == IF track_history
              THEN [s EXCEPT !.review_log =
                       Append(@, [answer |-> answer, day |-> date])]
              ELSE [s EXCEPT !.complete_history = FALSE]
    IN  IF was_first THEN handle_initial_review(s1, answer, date, fraction, p)
        ELSE IF answer = "Bury" THEN <<[s EXCEPT !.buried = TRUE], "Discard">>
        ELSE IF answer = "Again"
        THEN LET r == retention(s1, date)
                 s2 == [s1 EXCEPT !.stability =
                          new_stability_incorrect(s1.difficulty, s1.stability, r, p)]
                 s3 == [s2 EXCEPT !.difficulty =
                          new_difficulty(s2.difficulty, grade_f64(answer), p)]
             IN  <<update_review_failure(s3, date), "Again">>
        ELSE LET r == retention(s1, date)
                 s2 == [s1 EXCEPT !.stability =
                          new_stability_correct(s1.difficulty, s1.stability, r,
                                                answer, p)]
                 s3 == [s2 EXCEPT !.difficulty =
                          new_difficulty(s2.difficulty, grade_f64(answer), p)]
             IN  <<update_review_success(s3, date, fraction, p), "Discard">>

\* FSRSState::review: <<state, result>>
review(s, answer, date, track_history, fraction, p) ==
    IF answer = "Bury" THEN <<[s EXCEPT !.buried = TRUE], "Discard">>
    ELSE
      LET was_first == first_review(s)
          s1 == IF track_history
                THEN [s EXCEPT !.review_log =
                         Append(@, [answer |-> answer, day |-> date])]
                ELSE [s EXCEPT !.complete_history = FALSE]
      IN  IF was_first THEN handle_initial_review(s1, answer, date, fraction, p)
          ELSE IF answer = "Again"
          THEN LET r == retention(s1, date)
                   s2 == [s1 EXCEPT !.stability =
                            new_stability_incorrect(s1.difficulty, s1.stability, r, p)]
                   s3 == [s2 EXCEPT !.difficulty =
                            new_difficulty(s2.difficulty, grade_f64(answer), p)]
               IN  <<update_review_failure(s3, date), "Again">>
          ELSE LET r == retention(s1, date)
                   s2 == [s1 EXCEPT !.stability =
                            new_stability_correct(s1.difficulty, s1.stability, r,
                                                  answer, p)]
                   s3 == [s2 EXCEPT !.difficulty =
                            new_difficulty(s2.difficulty, grade_f64(answer), p)]
               IN  <<update_review_success(s3, date, fraction, p), "Discard">>

----------------------------------------------------------------------------
\* Dates (src/src/date.rs) and the generator (src/src/rand.rs)

\* A variant of is_after that leaves out the day itself
is_after_strict(a, b) == a > b

\* Date::is_after: on or after
is_after(a, b) == a >= b

MaxDay == 1
Days == 0 .. MaxDay

\* The values next_rand() can return: the generator is seeded by the caller,
\* so every residue modulo a small length can come out.
MaxRand == 2
RandValues == 0 .. MaxRand

\* next_rand() as f64 / 2^64, a value in [0, 1], on a grid
FracSteps == 1
UnitFractions == {(i * SCALE) \div FracSteps : i \in 0 .. FracSteps}

\* SplitMix64::next_float given the unit fraction drawn
next_float(frac, low, high) == Mul(frac, high - low) + low

\* The value of a one-element set: {e : x \in {d}} computes d once for e
Once(S) == CHOOSE x \in S : TRUE

\* A u64 as its eight bytes, least significant first
BYTE == 256
\* n as u64, for 0 <= n < 2^31
U64(n) == [k \in 1 .. 8 |-> IF k <= 4 THEN (n \div (BYTE ^ (k - 1))) % BYTE ELSE 0]

RECURSIVE U64AddFrom(_, _, _, _)
\* wrapping_add from byte k on with carry c
U64AddFrom(a, b, k, c) ==
    IF k > 8 THEN a
    ELSE U64AddFrom([a EXCEPT ![k] = (a[k] + b[k] + c) % BYTE], b, k + 1,
                    (a[k] + b[k] + c) \div BYTE)
wrapping_add(a, b) == Once({U64AddFrom(x, y, 1, 0) : x \in {a}, y \in {b}})

RECURSIVE BitXor(_, _)
BitXor(x, y) ==
    IF x = 0 THEN y
    ELSE IF y = 0 THEN x
    ELSE 2 * BitXor(x \div 2, y \div 2) + ((x + y) % 2)
U64Xor(a, b) == Once({[k \in 1 .. 8 |-> BitXor(x[k], y[k])] : x \in {a}, y \in {b}})

\* a >> bits
U64Shr(a, bits) ==
    LET q == bits \div 8
        r == bits % 8
        byte(k) == IF k + q <= 8 THEN a[k + q] ELSE 0
    IN  [k \in 1 .. 8 |-> (byte(k) \div (2 ^ r)) + (byte(k + 1) % (2 ^ r)) * (2 ^ (8 - r))]

RECURSIVE U64MulColumn(_, _, _, _)
\* The sum of a[i] * b[k + 1 - i] for i in 1 .. n
U64MulColumn(a, b, k, n) ==
    IF n = 0 THEN 0 ELSE a[n] * b[k + 1 - n] + U64MulColumn(a, b, k, n - 1)

RECURSIVE U64MulFrom(_, _, _, _, _)
\* wrapping_mul: the columns of the product from byte k on with carry c
U64MulFrom(a, b, k, c, out) ==
    IF k > 8 THEN out
    ELSE LET col == U64MulColumn(a, b, k, k) + c
         IN  U64MulFrom(a, b, k + 1, col \div BYTE, [out EXCEPT ![k] = col % BYTE])
wrapping_mul(a, b) == Once({U64MulFrom(x, y, 1, 0, U64(0)) : x \in {a}, y \in {b}})

RECURSIVE U64ModFrom(_, _, _, _)
\* a % n by long division from byte k down
U64ModFrom(a, n, k, rem) ==
    IF k < 1 THEN rem ELSE U64ModFrom(a, n, k - 1, (rem * BYTE + a[k]) % n)
U64Mod(a, n) == Once({U64ModFrom(x, n, 8, 0) : x \in {a}})

\* 0x9e3779b97f4a7c15, 0xbf58476d1ce4e5b9, 0x94d049bb133111eb
GAMMA == <<21, 124, 74, 127, 185, 121, 55, 158>>
MIX1 == <<185, 229, 228, 28, 109, 71, 88, 191>>
MIX2 == <<235, 17, 49, 19, 187, 73, 208, 148>>

\* SplitMix64::from_seed
from_seed(seed) == U64(seed)

\* z ^ (z >> bits)
xorshift(z, bits) == Once({U64Xor(x, U64Shr(x, bits)) : x \in {z}})

\* SplitMix64::next_rand: the generator state afterwards and the value returned
next_rand(state) ==
    Once({[state |-> s1,
           value |-> xorshift(wrapping_mul(xorshift(wrapping_mul(xorshift(s1, 30), MIX1),
                                                    27), MIX2), 31)] :
          s1 \in {wrapping_add(state, GAMMA)}})

\* next_rand() as f64 / 2^64 in fixed point, from the two highest bytes
unit_fraction(value) == ((value[8] * BYTE + value[7]) * SCALE) \div (BYTE * BYTE)

----------------------------------------------------------------------------
\* Cards (src/src/card.rs)

\* The characters of the texts of the model, in the order of their bytes
CharOrder ==
    <<"\t", "\n", "\r", " ", "(", ")", ".",
      "0", "1", "2", "3", "4", "5", "6", "7", "8", "9", "[", "\\", "]",
      "a", "b", "c", "d", "e", "f", "g", "h", "n", "p", "s", "t", "x", "y", "{", "}">>
CharCode ==
    [c \in {CharOrder[k] : k \in 1 .. Len(CharOrder)} |->
        CHOOSE k \in 1 .. Len(CharOrder) : CharOrder[k] = c]

RECURSIVE StrLess(_, _)
\* String ordering: lexicographic by character
StrLess(a, b) ==
    IF b = <<>> THEN FALSE
    ELSE IF a = <<>> THEN TRUE
    ELSE IF Head(a) # Head(b) THEN CharCode[Head(a)] < CharCode[Head(b)]
    ELSE StrLess(Tail(a), Tail(b))

\* Ord for Card: by front
CardLess(c1, c2) == StrLess(c1.content.front, c2.content.front)

\* PartialEq for Card: prefix and front
CardEq(c1, c2) ==
    c1.content.prefix = c2.content.prefix /\ c1.content.front = c2.content.front

\* CardContent::key
key(content) == content.prefix \o content.front

CardContent(prefix, front, back) ==
    [prefix |-> prefix, front |-> front, back |-> back, editable |-> TRUE,
     base |-> 0, child_index |-> 0]

NewCard(content, date) == [content |-> content, fsrs_state |-> FSRSState_new(date)]

RECURSIVE InsertSorted(_, _)
\* c placed after every card that is not greater (stable)
InsertSorted(sorted, c) ==
    IF sorted = <<>> THEN <<c>>
    ELSE IF CardLess(c, Head(sorted)) THEN <<c>> \o sorted
    ELSE <<Head(sorted)>> \o InsertSorted(Tail(sorted), c)

RECURSIVE SortCards(_)
\* Vec::sort: stable, by Ord for Card
SortCards(cs) ==
    IF cs = <<>> THEN <<>>
    ELSE InsertSorted(SortCards(SubSeq(cs, 1, Len(cs) - 1)), cs[Len(cs)])

----------------------------------------------------------------------------
\* Deck: review session (src/src/deck.rs)

\* cards[i] with the source's 0-based index
CardAt(cs, i) == cs[i + 1]

RemoveAt(seq, i) == SubSeq(seq, 1, i) \o SubSeq(seq, i + 2, Len(seq))

RECURSIVE get_indices_from(_, _, _)
get_indices_from(cs, date, index) ==
    IF index >= Len(cs) THEN <<>>
    ELSE LET card == CardAt(cs, index)
             rest == get_indices_from(cs, date, index + 1)
         IN  IF is_after(date, card.fsrs_state.review_date) /\ ~card.fsrs_state.buried
             THEN <<index>> \o rest
             ELSE rest

get_indices_to_review(cs, date) == get_indices_from(cs, date, 0)

RECURSIVE all_indices_from(_, _)
all_indices_from(cs, i) ==
    IF i >= Len(cs) THEN <<>>
    ELSE IF ~CardAt(cs, i).fsrs_state.buried
         THEN <<i>> \o all_indices_from(cs, i + 1)
         ELSE all_indices_from(cs, i + 1)

RECURSIVE SkipIndex(_, _, _)
\* while new_index == self.review_index.unwrap() { new_index += 1; new_index %= len }
SkipIndex(new_index, old, count) ==
    IF new_index = old THEN SkipIndex((new_index + 1) % count, old, count)
    ELSE new_index

\* The values gen_review_index can draw: next_rand() is called only when at
\* least two indices are active
Draws(indices) == IF Len(indices) >= 2 THEN RandValues ELSE {0}

\* A variant of gen_review_index without the loop that skips the old index
gen_review_index_noskip(indices, old, rnd) ==
    LET count == Len(indices)
    IN  IF count = 0 THEN None
        ELSE IF count = 1 THEN 0
        ELSE rnd % count

\* Deck::gen_review_index: the new review_index, rnd being next_rand()
gen_review_index(indices, old, rnd) ==
    LET count == Len(indices)
    IN  IF count = 0 THEN None
        ELSE IF count = 1 THEN 0
        ELSE IF old # None THEN SkipIndex(rnd % count, old, count)
        ELSE rnd % count

\* The number of cards whose review_date is day
CountDue(cs, day) ==
    Cardinality({i \in 1 .. Len(cs) : cs[i].fsrs_state.review_date = day})

\* A variant of card_review_offset whose first test asks for strictly more cards
\* tomorrow than yesterday
card_review_offset_strict(cs, day) ==
    LET today_count == CountDue(cs, day)
        yesterday_count == CountDue(cs, day - 1)
        tomorrow_count == CountDue(cs, day + 1)
    IN  IF today_count > yesterday_count /\ tomorrow_count > yesterday_count THEN -1
        ELSE IF today_count > tomorrow_count /\ yesterday_count > tomorrow_count THEN 1
        ELSE 0

\* Deck::card_review_offset
card_review_offset(cs, day) ==
    LET today_count == CountDue(cs, day)
        yesterday_count == CountDue(cs, day - 1)
        tomorrow_count == CountDue(cs, day + 1)
    IN  IF today_count > yesterday_count /\ tomorrow_count >= yesterday_count THEN -1
        ELSE IF today_count > tomorrow_count /\ yesterday_count > tomorrow_count THEN 1
        ELSE 0

STABILITY_THRESHOLD == 2 * SCALE

\* The cards after the match on the review result in Deck::review_card
apply_review_offset(cs, card_index, result) ==
    IF result = "Discard"
       /\ CardAt(cs, card_index).fsrs_state.stability > STABILITY_THRESHOLD
    THEN LET offset == card_review_offset(cs, CardAt(cs, card_index).fsrs_state.review_date)
         IN  [cs EXCEPT ![card_index + 1].fsrs_state.review_date = @ + offset]
    ELSE cs

\* A variant of active_after that removes the index whatever the result
active_after_any(indices, index, result) == RemoveAt(indices, index)

\* The active set after the match on the review result in Deck::review_card
active_after(indices, index, result) ==
    IF result = "Discard" THEN RemoveAt(indices, index) ELSE indices

Snapshot == [cards |-> cards, orphans |-> orphans, review_indices |-> review_indices,
             review_index |-> review_index, op |-> last.op, arg |-> last.arg,
             base_cards |-> base_cards]

NoOp == [op |-> "new", answer |-> "None", result |-> "None", card |-> None,
         date |-> None, arg |-> <<>>]

NoSession == [k |-> 0, discards |-> 0, agains |-> 0]

\* Outside seeded runs the caller's generator is in any state (see RandValues)
NoGenerator == <<>>
NoTwin == <<>>
\* Outside the application the deck stands alone
NoApp == <<>>

Ready == status = "ok" /\ nops > 0

\* Deck::start_review
StartReview ==
    /\ Ready
    /\ \E date \in Days :
         LET indices == get_indices_to_review(cards, date)
         IN  \E rnd \in Draws(indices) :
             /\ review_indices' = indices
             /\ review_date' = date
             /\ review_index' = gen_review_index(indices, review_index, rnd)
             /\ last' = [NoOp EXCEPT !.op = "start_review", !.date = date]
             /\ session' = [k |-> Len(indices), discards |-> 0, agains |-> 0]
    /\ prev' = Snapshot
    /\ nops' = nops - 1
    /\ UNCHANGED <<generator, twin, base_cards, app>>
    /\ UNCHANGED <<cards, orphans, track_review_history, params, status>>

\* Deck::start_all_review
StartAllReview ==
    /\ Ready
    /\ \E date \in Days :
         LET indices == all_indices_from(cards, 0)
         IN  \E rnd \in Draws(indices) :
             /\ review_indices' = indices
             /\ review_date' = date
             /\ review_index' = gen_review_index(indices, review_index, rnd)
             /\ last' = [NoOp EXCEPT !.op = "start_all_review", !.date = date]
             /\ session' = [k |-> Len(indices), discards |-> 0, agains |-> 0]
    /\ prev' = Snapshot
    /\ nops' = nops - 1
    /\ UNCHANGED <<generator, twin, base_cards, app>>
    /\ UNCHANGED <<cards, orphans, track_review_history, params, status>>

RECURSIVE probe_free_unchecked(_, _, _, _)
\* A variant of probe_free that does not look at buried
probe_free_unchecked(cs, indices, new_index, steps) ==
    IF steps >= Len(cs) THEN None
    ELSE IF \E j \in 1 .. Len(indices) : indices[j] = new_index
    THEN probe_free_unchecked(cs, indices, (new_index + 1) % Len(cs), steps + 1)
    ELSE new_index

RECURSIVE probe_free(_, _, _, _)
\* The while loop of start_random_review: the first index from new_index on,
\* cyclically, that is neither in indices nor buried. The loop's only state is
\* new_index, so once it has stepped Len(cs) times without leaving it is back
\* where it started and never leaves: None stands for that.
probe_free(cs, indices, new_index, steps) ==
    IF steps >= Len(cs) THEN None
    ELSE IF \/ \E j \in 1 .. Len(indices) : indices[j] = new_index
            \/ CardAt(cs, new_index).fsrs_state.buried
    THEN probe_free(cs, indices, (new_index + 1) % Len(cs), steps + 1)
    ELSE new_index

\* What random_indices gives when a while loop never ends
NeverEnds == <<None>>

RECURSIVE random_indices(_, _, _, _)
\* The for loop of start_random_review, rnds[i] being the i-th next_rand():
\* the indices gathered, or NeverEnds
random_indices(cs, rnds, i, indices) ==
    IF i > Len(rnds) THEN indices
    ELSE LET new_index == probe_free(cs, indices, rnds[i] % Len(cs), 0)
         IN  IF new_index = None THEN NeverEnds
             ELSE random_indices(cs, rnds, i + 1, Append(indices, new_index))

MaxReviewCount == 4
ReviewCounts == 0 .. MaxReviewCount

\* Deck::start_random_review; a call that never returns leaves status "hang"
StartRandomReview ==
    /\ Ready
    /\ \E date \in Days, review_count \in ReviewCounts :
       \E rnds \in [1 .. Min(review_count, Len(cards)) -> RandValues] :
       \E indices \in {random_indices(cards, rnds, 1, <<>>)} :
         IF indices = NeverEnds
         THEN /\ status' = "hang"
              /\ last' = [NoOp EXCEPT !.op = "start_random_review", !.date = date,
                                      !.result = "Hang", !.arg = <<review_count>>]
              /\ UNCHANGED <<review_indices, review_date, review_index, session>>
         ELSE \E rnd \in Draws(indices) :
              /\ status' = status
              /\ review_indices' = indices
              /\ review_date' = date
              /\ review_index' = gen_review_index(indices, review_index, rnd)
              /\ last' = [NoOp EXCEPT !.op = "start_random_review", !.date = date,
                                      !.result = "Ok", !.arg = <<review_count>>]
              /\ session' = [k |-> Len(indices), discards |-> 0, agains |-> 0]
    /\ prev' = Snapshot
    /\ nops' = nops - 1
    /\ UNCHANGED <<generator, twin, base_cards, app>>
    /\ UNCHANGED <<cards, orphans, track_review_history, params>>

\* Deck::stop_review
StopReview ==
    /\ Ready
    /\ review_indices' = <<>>
    /\ review_index' = None
    /\ review_date' = None
    /\ last' = [NoOp EXCEPT !.op = "stop_review"]
    /\ session' = NoSession
    /\ prev' = Snapshot
    /\ nops' = nops - 1
    /\ UNCHANGED <<generator, twin, base_cards, app>>
    /\ UNCHANGED <<cards, orphans, track_review_history, params, status>>

\* Deck::get_review_card: the index into cards of the current card, or None
get_review_card ==
    IF review_index # None THEN review_indices[review_index + 1] ELSE None

\* review_card runs without a failed unwrap or an out-of-range index
CanReview ==
    /\ review_index # None
    /\ review_index < Len(review_indices)
    /\ review_indices[review_index + 1] < Len(cards)
    /\ review_date # None

\* Deck::review_card
ReviewCard ==
    /\ Ready
    /\ CanReview
    /\ \E answer \in ReviewAnswer, frac \in UnitFractions :
         LET card_index == review_indices[review_index + 1]
             fraction == next_float(frac, SCALE - RANDOMNESS, SCALE + RANDOMNESS)
         IN  \E res \in {review(CardAt(cards, card_index).fsrs_state, answer,
                                review_date, track_review_history, fraction, params)} :
             \E indices \in {active_after(review_indices, review_index, res[2])} :
             \E rnd \in Draws(indices) :
             /\ res[2] # "Panic"
             /\ cards' = apply_review_offset(
                            [cards EXCEPT ![card_index + 1].fsrs_state = res[1]],
                            card_index, res[2])
             /\ review_indices' = indices
             /\ review_index' = gen_review_index(indices, review_index, rnd)
             /\ last' = [NoOp EXCEPT !.op = "review_card", !.answer = answer,
                                     !.result = res[2], !.card = card_index,
                                     !.date = review_date]
             /\ session' = IF res[2] = "Discard"
                            THEN [session EXCEPT !.discards = @ + 1]
                            ELSE [session EXCEPT !.agains = @ + 1]
    /\ prev' = Snapshot
    /\ nops' = nops - 1
    /\ UNCHANGED <<generator, twin, base_cards, app>>
    /\ UNCHANGED <<orphans, track_review_history, params, review_date, status>>

\* Deck::review_card called with no current card: unwrap() on None panics
ReviewCardPanic ==
    /\ Ready
    /\ ~CanReview
    /\ status' = "panic"
    /\ last' = [NoOp EXCEPT !.op = "review_card", !.result = "Panic"]
    /\ prev' = Snapshot
    /\ nops' = nops - 1
    /\ UNCHANGED <<generator, twin, base_cards, app>>
    /\ UNCHANGED <<cards, orphans, track_review_history, params, review_index,
                   review_indices, review_date, session>>

----------------------------------------------------------------------------
\* Deck: rescheduling (src/src/deck.rs)

\* The indices of the cards reschedule selects: not buried and due before the
\* end of the window
RECURSIVE reschedule_indices(_, _, _, _)
reschedule_indices(cs, first_day, days, index) ==
    IF index >= Len(cs) THEN <<>>
    ELSE LET card == CardAt(cs, index)
             rest == reschedule_indices(cs, first_day, days, index + 1)
         IN  IF ~card.fsrs_state.buried
                /\ card.fsrs_state.review_date - first_day < days
             THEN <<index>> \o rest
             ELSE rest

\* A variant of effective_cap that keeps the caller's cap
effective_cap_given(max_cards_per_day, total, days) == max_cards_per_day

\* max_cards_per_day.max((total / days).ceil())
effective_cap(max_cards_per_day, total, days) ==
    Max(max_cards_per_day, (total + days - 1) \div days)

RECURSIVE reschedule_probe_unbounded(_, _, _, _, _, _, _)
\* A variant of reschedule_probe that does not test day_idx >= 0
reschedule_probe_unbounded(day0, first_day, days, cap, counts, max_diff, i) ==
    IF i > max_diff * 2 THEN None
    ELSE LET day == day0 - max_diff + i
             day_idx == day - first_day
         IN  IF day_idx < days /\ (day_idx < 0 \/ counts[day_idx + 1] < cap)
             THEN day
             ELSE reschedule_probe_unbounded(day0, first_day, days, cap, counts,
                                             max_diff, i + 1)

RECURSIVE reschedule_probe_uncapped(_, _, _, _, _, _, _)
\* A variant of reschedule_probe that does not test the day's count
reschedule_probe_uncapped(day0, first_day, days, cap, counts, max_diff, i) ==
    IF i > max_diff * 2 THEN None
    ELSE LET day == day0 - max_diff + i
             day_idx == day - first_day
         IN  IF day_idx >= 0 /\ day_idx < days
             THEN day
             ELSE reschedule_probe_uncapped(day0, first_day, days, cap, counts,
                                            max_diff, i + 1)

RECURSIVE reschedule_probe_latest(_, _, _, _, _, _, _)
\* A variant of reschedule_probe that tries the later days first
reschedule_probe_latest(day0, first_day, days, cap, counts, max_diff, i) ==
    IF i > max_diff * 2 THEN None
    ELSE LET day == day0 + max_diff - i
             day_idx == day - first_day
         IN  IF day_idx >= 0 /\ day_idx < days /\ counts[day_idx + 1] < cap
             THEN day
             ELSE reschedule_probe_latest(day0, first_day, days, cap, counts,
                                          max_diff, i + 1)

RECURSIVE reschedule_probe(_, _, _, _, _, _, _)
\* for i in 0..max_diff * 2 + 1: the first day within max_diff of day0 that is
\* in the window and below the cap, None if there is none
reschedule_probe(day0, first_day, days, cap, counts, max_diff, i) ==
    IF i > max_diff * 2 THEN None
    ELSE LET day == day0 - max_diff + i
             day_idx == day - first_day
         IN  IF day_idx >= 0 /\ day_idx < days /\ counts[day_idx + 1] < cap
             THEN day
             ELSE reschedule_probe(day0, first_day, days, cap, counts, max_diff, i + 1)

RECURSIVE reschedule_pass(_, _, _, _, _, _, _)
\* One filter over the pending indices; acc holds cards, counts and the indices
\* the filter keeps, and in order the assignments made so far, as <<index, day>>
reschedule_pass(acc, indices, k, first_day, days, cap, max_diff) ==
    IF k > Len(indices) THEN acc
    ELSE LET index == indices[k]
             day == reschedule_probe(CardAt(acc.cards, index).fsrs_state.review_date,
                                     first_day, days, cap, acc.counts, max_diff, 0)
         IN  IF day # None
             THEN reschedule_pass(
                     [acc EXCEPT !.cards[index + 1].fsrs_state.review_date = day,
                                 !.counts[day - first_day + 1] = @ + 1,
                                 !.order = Append(@, <<index, day>>)],
                     indices, k + 1, first_day, days, cap, max_diff)
             ELSE reschedule_pass([acc EXCEPT !.left = Append(@, index)],
                                  indices, k + 1, first_day, days, cap, max_diff)

\* The largest distance from the due day of a pending card to a day of the window
RECURSIVE window_reach(_, _, _, _, _)
window_reach(cs, indices, k, first_day, days) ==
    IF k > Len(indices) THEN 0
    ELSE LET d == CardAt(cs, indices[k]).fsrs_state.review_date
         IN  Max(Max(Abs(d - first_day), Abs(d - (first_day + days - 1))),
                 window_reach(cs, indices, k + 1, first_day, days))

RECURSIVE reschedule_loop(_, _, _, _, _)
\* The loop of reschedule. Once max_diff exceeds the reach of every pending card
\* the last pass has probed the whole window for each of them; counts only
\* grow, so no later pass places any: the loop never ends (done is FALSE).
reschedule_loop(acc, first_day, days, cap, max_diff) ==
    IF acc.left = <<>> THEN [cards |-> acc.cards, done |-> TRUE, order |-> acc.order]
    ELSE IF max_diff > window_reach(acc.cards, acc.left, 1, first_day, days)
    THEN [cards |-> acc.cards, done |-> FALSE, order |-> acc.order]
    ELSE reschedule_loop(
            reschedule_pass([acc EXCEPT !.left = <<>>], acc.left, 1,
                            first_day, days, cap, max_diff),
            first_day, days, cap, max_diff + 1)

\* Deck::reschedule: the cards afterwards, and whether the call returns
reschedule(cs, first_day, days, max_cards_per_day) ==
    LET indices == reschedule_indices(cs, first_day, days, 0)
        cap == effective_cap(max_cards_per_day, Len(indices), days)
    IN  reschedule_loop([cards |-> cs, counts |-> [d \in 1 .. days |-> 0],
                         left |-> indices, order |-> <<>>],
                        first_day, days, cap, 0)

MaxFirstDay == 2
MaxWindow == 3
MaxCap == 2

\* Deck::reschedule; a call that never returns leaves status "hang"
Reschedule ==
    /\ Ready
    /\ \E first_day \in 0 .. MaxFirstDay, days \in 1 .. MaxWindow,
          max_cards_per_day \in 0 .. MaxCap :
       \E r \in {reschedule(cards, first_day, days, max_cards_per_day)} :
         /\ cards' = r.cards
         /\ status' = IF r.done THEN status ELSE "hang"
         /\ last' = [NoOp EXCEPT !.op = "reschedule", !.date = first_day,
                                 !.result = IF r.done THEN "Ok" ELSE "Hang",
                                 !.arg = <<days, max_cards_per_day, r.order>>]
    /\ prev' = Snapshot
    /\ nops' = nops - 1
    /\ UNCHANGED <<generator, twin, base_cards, app>>
    /\ UNCHANGED <<orphans, track_review_history, params, review_index,
                   review_indices, review_date, session>>

----------------------------------------------------------------------------
\* Deck: reconciliation (src/src/deck.rs)

RECURSIVE build_map(_, _, _)
\* The first loop of replace_cards: the HashMap from key to card, as a function.
\* A recurring key keeps the entry inserted first and clears its editable flag.
build_map(new_cards, i, map) ==
    IF i > Len(new_cards) THEN map
    ELSE LET card == new_cards[i]
             k == key(card.content)
         IN  IF k \in DOMAIN map
             THEN build_map(new_cards, i + 1,
                            [map EXCEPT ![k].content.editable = FALSE])
             ELSE build_map(new_cards, i + 1, map @@ (k :> card))

EmptyMap == [k \in {} |-> <<>>]

\* A variant of MapRemove that leaves the entry in the map
MapKeep(map, k) == map

\* HashMap::remove
MapRemove(map, k) == [x \in DOMAIN map \ {k} |-> map[x]]

RECURSIVE adopt_old(_, _, _)
\* The second loop of replace_cards over the drained old cards; acc holds the
\* map, updated_cards and orphans
adopt_old(old_cards, i, acc) ==
    IF i > Len(old_cards) THEN acc
    ELSE LET card == old_cards[i]
             k == key(card.content)
         IN  IF k \in DOMAIN acc.map
             THEN adopt_old(old_cards, i + 1,
                    [acc EXCEPT !.map = MapRemove(acc.map, k),
                                !.updated = Append(@, [card EXCEPT !.content =
                                                          acc.map[k].content])])
             ELSE adopt_old(old_cards, i + 1,
                    [acc EXCEPT !.orphans = Append(@, card)])

RECURSIVE first_orphan(_, _, _)
\* The position (1-based) of the first orphan with the given front, 0 if none
first_orphan(orph, front, i) ==
    IF i > Len(orph) THEN 0
    ELSE IF orph[i].content.front = front THEN i
    ELSE first_orphan(orph, front, i + 1)

RECURSIVE link_new(_, _, _)
\* The third loop of replace_cards, visiting the map's entries in the given order
link_new(order, i, acc) ==
    IF i > Len(order) THEN acc
    ELSE LET card == acc.map[order[i]]
             j == first_orphan(acc.orphans, card.content.front, 1)
         IN  IF j > 0
             THEN link_new(order, i + 1,
                    [acc EXCEPT !.orphans = RemoveAt(acc.orphans, j - 1),
                                !.updated = Append(@, [card EXCEPT !.fsrs_state =
                                                          acc.orphans[j].fsrs_state])])
             ELSE link_new(order, i + 1, [acc EXCEPT !.updated = Append(@, card)])

\* The orders in which `for (_, card) in map` can visit the entries: HashMap
\* iteration order is unspecified
IterationOrders(map) ==
    LET ks == DOMAIN map
        n == Cardinality(ks)
    IN  {f \in [1 .. n -> ks] : \A a, b \in 1 .. n : a # b => f[a] # f[b]}

\* The state of replace_cards after the first two loops
replace_adopted(cs, orph, new_cards) ==
    adopt_old(cs, 1, [map |-> build_map(new_cards, 1, EmptyMap),
                      updated |-> <<>>, orphans |-> orph])

\* Deck::replace_cards from the state after the first two loops: the deck's
\* cards and orphans afterwards
replace_cards(adopted, order) ==
    LET acc == link_new(order, 1, adopted)
    IN  [cards |-> SortCards(acc.updated), orphans |-> acc.orphans]

\* The collections given to replace_cards
Prefixes == {<<>>, <<"1">>}
Fronts == {<<"2">>, <<"1", "2">>}
Identities == Prefixes \X Fronts
MaxColl == 2
MaxCollMerge == 3

\* A collection parsed on day date from sources whose cards have the given
\* prefixes and fronts; the back of a card tells the day and its place
CollectionOf(ids, date) ==
    [i \in 1 .. Len(ids) |->
        NewCard(CardContent(ids[i][1], ids[i][2], <<3 + date, i>>), date)]

Collections(maxlen) ==
    {CollectionOf(ids, date) :
        ids \in UNION {[1 .. n -> Identities] : n \in 0 .. maxlen}, date \in Days}

\* Deck::replace_cards with one of the collections
ReplaceCardsWith(collections) ==
    /\ Ready
    /\ \E collection \in collections :
         \E adopted \in {replace_adopted(cards, orphans, collection.cards)} :
         \E order \in IterationOrders(adopted.map) :
         \E r \in {replace_cards(adopted, order)} :
               /\ cards' = r.cards
               /\ orphans' = r.orphans
               /\ base_cards' = collection.base_cards
               /\ last' = [NoOp EXCEPT !.op = "replace_cards", !.result = "Ok",
                                       !.arg = collection.cards]
    /\ prev' = Snapshot
    /\ nops' = nops - 1
    /\ UNCHANGED <<generator, twin, app>>
    /\ UNCHANGED <<track_review_history, params, review_index, review_indices,
                   review_date, status, session>>

\* The collections of at most maxlen cards; their cards have no cloze span
ReplaceCardsOf(maxlen) ==
    ReplaceCardsWith({[cards |-> new_cards, base_cards |-> <<>>] :
                         new_cards \in Collections(maxlen)})

\* Deck::replace_cards with a collection of at most MaxColl cards
ReplaceCards == ReplaceCardsOf(MaxColl)

\* Deck::replace_cards with a collection of at most MaxCollMerge cards
ReplaceCardsMerge == ReplaceCardsOf(MaxCollMerge)

----------------------------------------------------------------------------
\* Review log encoding (src/src/fsrs.rs)

\* An i64 as its two 32-bit words: hi is the value >> 32 (arithmetic), lo is the
\* low word read as an i32
I32_MIN == (0 - 2147483647) - 1
I32_MAX == 2147483647

RECURSIVE BitOr(_, _)
\* a | b on two's complement integers
BitOr(a, b) ==
    IF a = 0 THEN b
    ELSE IF b = 0 THEN a
    ELSE IF a = 0 - 1 \/ b = 0 - 1 THEN 0 - 1
    ELSE 2 * BitOr(a \div 2, b \div 2) + Max(a % 2, b % 2)

\* x as i64: sign extension
I64_from_i32(x) == [hi |-> IF x < 0 THEN 0 - 1 ELSE 0, lo |-> x]
\* value << 32 of an i64 that fits its low word
I64_shl32(x) == [hi |-> x.lo, lo |-> 0]
I64_or(x, y) == [hi |-> BitOr(x.hi, y.hi), lo |-> BitOr(x.lo, y.lo)]

\* The match of ReviewLogItem::encode
answer_code(answer) ==
    CASE answer = "Bury" -> 0
      [] answer = "Again" -> 1
      [] answer = "Hard" -> 2
      [] answer = "Good" -> 3
      [] answer = "Easy" -> 4

\* ReviewLogItem::encode: (value << 32) | self.day.day as i64
ReviewLogItem_encode(item) ==
    I64_or(I64_shl32(I64_from_i32(answer_code(item.answer))),
           I64_from_i32(item.day))

Err == [err |-> TRUE]
\* ReviewLogItem::from: the item, or Err for a high word outside 0..4
ReviewLogItem_from(value) ==
    IF value.hi \in 0 .. 4
    THEN [answer |-> CHOOSE a \in ReviewAnswer : answer_code(a) = value.hi,
          day |-> value.lo]
    ELSE Err

MaxLogDay == 3
\* Day numbers: around day 0, the days of tests::review_log_serialization_works
\* and the limits of i32
DayValues ==
    (0 - MaxLogDay .. MaxLogDay) \cup {I32_MIN, I32_MIN + 1, 1000, 1999, I32_MAX}

\* encode of a review-log entry; last.arg holds the entry, then the i64
LogEncode ==
    /\ last.op = "item"
    /\ last' = [last EXCEPT !.op = "encode",
                            !.arg = <<ReviewLogItem_encode([answer |-> last.answer,
                                                            day |-> last.date])>>]
    /\ prev' = Snapshot
    /\ nops' = nops - 1
    /\ UNCHANGED <<generator, twin, base_cards, app>>
    /\ UNCHANGED <<cards, orphans, track_review_history, params, review_index,
                   review_indices, review_date, status, session>>

\* from of an encoded entry
LogFrom ==
    /\ last.op = "encode"
    /\ \E r \in {ReviewLogItem_from(last.arg[1])} :
          last' = [last EXCEPT !.op = "from",
                               !.result = IF r = Err THEN "Err" ELSE "Ok",
                               !.arg = <<r>>]
    /\ prev' = Snapshot
    /\ nops' = nops - 1
    /\ UNCHANGED <<generator, twin, base_cards, app>>
    /\ UNCHANGED <<cards, orphans, track_review_history, params, review_index,
                   review_indices, review_date, status, session>>

----------------------------------------------------------------------------
\* Card: the TSV row (src/src/card.rs)

\* A String is the sequence of its characters
BS == "\\"
NL == "\n"
TAB == "\t"

\* pat occurs in s at position i
MatchAt(s, i, pat) ==
    /\ i + Len(pat) - 1 <= Len(s)
    /\ \A k \in 1 .. Len(pat) : s[i + k - 1] = pat[k]

RECURSIVE ReplaceFrom(_, _, _, _)
\* str::replace from position i: the matches found left to right, not overlapping
ReplaceFrom(s, i, from, to) ==
    IF i > Len(s) THEN <<>>
    ELSE IF MatchAt(s, i, from)
    THEN to \o ReplaceFrom(s, i + Len(from), from, to)
    ELSE <<s[i]>> \o ReplaceFrom(s, i + 1, from, to)

Replace(s, from, to) == ReplaceFrom(s, 1, from, to)

\* <<from, to>> pairs
ESCAPED_STRINGS ==
    << << <<BS, "n">>, <<"[", BS, "]", "n">> >>,
       << <<BS, "t">>, <<"[", BS, "]", "t">> >>,
       << <<NL>>, <<BS, "n">> >>,
       << <<TAB>>, <<BS, "t">> >> >>

RECURSIVE to_singleline_from(_, _)
to_singleline_from(input, k) ==
    IF k > Len(ESCAPED_STRINGS) THEN input
    ELSE to_singleline_from(
            Replace(input, ESCAPED_STRINGS[k][1], ESCAPED_STRINGS[k][2]), k + 1)

convert_to_singleline(input) == to_singleline_from(input, 1)

RECURSIVE from_singleline_from(_, _)
\* ESCAPED_STRINGS.iter().rev(), each pair applied backwards
from_singleline_from(input, k) ==
    IF k < 1 THEN input
    ELSE from_singleline_from(
            Replace(input, ESCAPED_STRINGS[k][2], ESCAPED_STRINGS[k][1]), k - 1)

convert_from_singleline(input) == from_singleline_from(input, Len(ESCAPED_STRINGS))

Digits == <<"0", "1", "2", "3", "4", "5", "6", "7", "8", "9">>
DigitValue(c) == CHOOSE d \in 0 .. 9 : Digits[d + 1] = c
IsDigit(c) == \E d \in 0 .. 9 : Digits[d + 1] = c

RECURSIVE NatToString(_)
NatToString(n) ==
    IF n < 10 THEN <<Digits[n + 1]>>
    ELSE Append(NatToString(n \div 10), Digits[(n % 10) + 1])

\* Display for i32 (not for i32::MIN, whose magnitude is no i32)
I32ToString(n) == IF n < 0 THEN <<"-">> \o NatToString(0 - n) ELSE NatToString(n)

RECURSIVE ParseNat(_, _, _)
ParseNat(s, i, acc) ==
    IF i > Len(s) THEN acc ELSE ParseNat(s, i + 1, acc * 10 + DigitValue(s[i]))

AllDigits(s, i) == i <= Len(s) /\ \A k \in i .. Len(s) : IsDigit(s[k])

MaxDigits == 9
\* str::parse::<i32> succeeds (texts of at most MaxDigits digits)
IsI32(s) ==
    \/ s # <<>> /\ s[1] = "-" /\ AllDigits(s, 2) /\ Len(s) <= MaxDigits + 1
    \/ AllDigits(s, 1) /\ Len(s) <= MaxDigits
ParseI32(s) == IF s[1] = "-" THEN 0 - ParseNat(s, 2, 0) ELSE ParseNat(s, 1, 0)

\* An i64 as four 16-bit limbs, least significant first
LIMB == 65536
Limbs(x) == <<x.lo % LIMB, (x.lo \div LIMB) % LIMB, x.hi % LIMB, (x.hi \div LIMB) % LIMB>>
Signed32(h, l) == (IF h >= LIMB \div 2 THEN h - LIMB ELSE h) * LIMB + l
FromLimbs(l) == [hi |-> Signed32(l[4], l[3]), lo |-> Signed32(l[2], l[1])]
LimbsNegative(l) == l[4] >= LIMB \div 2

RECURSIVE LimbsAdd(_, _, _)
\* l + c from limb k on, modulo 2^64
LimbsAdd(l, k, c) ==
    IF k > Len(l) \/ c = 0 THEN l
    ELSE LimbsAdd([l EXCEPT ![k] = (l[k] + c) % LIMB], k + 1, (l[k] + c) \div LIMB)

\* wrapping negation: invert and add one
LimbsNeg(l) == LimbsAdd([k \in 1 .. Len(l) |-> (LIMB - 1) - l[k]], 1, 1)

RECURSIVE LimbsDivTen(_, _, _)
\* l / 10 by long division from limb k down; <<quotient, remainder>>
LimbsDivTen(l, k, rem) ==
    IF k < 1 THEN <<l, rem>>
    ELSE LimbsDivTen([l EXCEPT ![k] = (rem * LIMB + l[k]) \div 10], k - 1,
                     (rem * LIMB + l[k]) % 10)

RECURSIVE LimbsToString(_)
\* The decimal digits of an unsigned value
LimbsToString(l) ==
    LET qr == LimbsDivTen(l, Len(l), 0)
    IN  IF \A k \in 1 .. Len(l) : qr[1][k] = 0 THEN <<Digits[qr[2] + 1]>>
        ELSE Append(LimbsToString(qr[1]), Digits[qr[2] + 1])

\* Display for i64
I64ToString(x) ==
    IF LimbsNegative(Limbs(x)) THEN <<"-">> \o LimbsToString(LimbsNeg(Limbs(x)))
    ELSE LimbsToString(Limbs(x))

\* l * m + c modulo 2^64, for m up to 10^4: the carry out of the last limb is
\* dropped
LimbsMulAdd(l, m, c) ==
    LET t1 == (l[1] * m) + c
        t2 == (l[2] * m) + (t1 \div LIMB)
        t3 == (l[3] * m) + (t2 \div LIMB)
        t4 == (l[4] * m) + (t3 \div LIMB)
    IN  <<t1 % LIMB, t2 % LIMB, t3 % LIMB, t4 % LIMB>>

RECURSIVE ParseLimbs(_, _, _)
\* The value of acc followed by the digits of s from i on, which are taken up
\* to four at a time
ParseLimbs(s, i, acc) ==
    IF i > Len(s) THEN acc
    ELSE LET j == IF i + 3 < Len(s) THEN i + 3 ELSE Len(s)
         IN  ParseLimbs(s, j + 1,
                        LimbsMulAdd(acc, 10 ^ (j - i + 1), ParseNat(SubSeq(s, i, j), 1, 0)))

MaxDigits64 == 18
\* str::parse::<i64> succeeds (texts of at most MaxDigits64 digits, which fit)
IsI64(s) ==
    \/ s # <<>> /\ s[1] = "-" /\ AllDigits(s, 2) /\ Len(s) <= MaxDigits64 + 1
    \/ AllDigits(s, 1) /\ Len(s) <= MaxDigits64
ParseI64(s) ==
    IF s[1] = "-" THEN FromLimbs(LimbsNeg(ParseLimbs(s, 2, <<0, 0, 0, 0>>)))
    ELSE FromLimbs(ParseLimbs(s, 1, <<0, 0, 0, 0>>))

\* An f64 is a fixed-point number of FracDigits decimals (see SCALE)
FracDigits == 4

RECURSIVE FracToString(_, _)
\* The decimals of frac / 10^width, without trailing zeros
FracToString(frac, width) ==
    IF frac = 0 THEN <<>>
    ELSE LET unit == 10 ^ (width - 1)
         IN  <<Digits[(frac \div unit) + 1]>> \o FracToString(frac % unit, width - 1)

\* Display for f64: the shortest text that parses back to the value
F64ToString(v) ==
    (IF v < 0 THEN <<"-">> ELSE <<>>)
       \o NatToString(Abs(v) \div SCALE)
       \o (IF Abs(v) % SCALE = 0 THEN <<>>
           ELSE <<".">> \o FracToString(Abs(v) % SCALE, FracDigits))

\* The position of the first c in s, Len(s) + 1 if there is none
RECURSIVE IndexOf(_, _, _)
IndexOf(s, c, i) ==
    IF i > Len(s) \/ s[i] = c THEN i ELSE IndexOf(s, c, i + 1)

RECURSIVE ParseFrac(_, _, _)
ParseFrac(s, i, width) ==
    IF i > Len(s) \/ width = 0 THEN 0
    ELSE DigitValue(s[i]) * 10 ^ (width - 1) + ParseFrac(s, i + 1, width - 1)

\* str::parse::<f64> succeeds: sign, digits, and decimals after a point
IsF64(s) ==
    LET body == IF s # <<>> /\ s[1] = "-" THEN Tail(s) ELSE s
        dot == IndexOf(body, ".", 1)
    IN  /\ dot > 1
        /\ dot - 1 <= MaxDigits - FracDigits
        /\ \A k \in 1 .. Len(body) : k # dot => IsDigit(body[k])
        /\ dot # Len(body)
        /\ Len(body) - dot <= FracDigits
ParseF64(s) ==
    LET neg == s[1] = "-"
        body == IF neg THEN Tail(s) ELSE s
        dot == IndexOf(body, ".", 1)
        v == ParseNat(SubSeq(body, 1, dot - 1), 1, 0) * SCALE
                + ParseFrac(body, dot + 1, FracDigits)
    IN  IF neg THEN 0 - v ELSE v

\* Display for bool, and str::parse::<bool>
BoolToString(b) == IF b THEN <<"t", "r", "u", "e">> ELSE <<"f", "a", "l", "s", "e">>
IsBool(s) == s = BoolToString(TRUE) \/ s = BoolToString(FALSE)
ParseBool(s) == s = BoolToString(TRUE)

RECURSIVE Join(_, _)
Join(fields, sep) ==
    IF fields = <<>> THEN <<>>
    ELSE IF Len(fields) = 1 THEN fields[1]
    ELSE fields[1] \o <<sep>> \o Join(Tail(fields), sep)

\* The j-th position of the set, counted from 1 in increasing order
NthOf(at, j) == CHOOSE k \in at : Cardinality({p \in at : p < k}) = j - 1

\* str::split: the pieces of s between the occurrences of sep, cur being the
\* piece that position i continues
Split(s, sep, i, cur) ==
    Once({[j \in 1 .. Cardinality(at) + 1 |->
             (IF j = 1 THEN cur ELSE <<>>)
                \o SubSeq(s, IF j = 1 THEN i ELSE NthOf(at, j - 1) + 1,
                             IF j > Cardinality(at) THEN Len(s) ELSE NthOf(at, j) - 1)] :
          at \in {{k \in i .. Len(s) : s[k] = sep}}})

\* str::split_terminator: split without an empty last piece
SplitTerminator(s, sep) ==
    LET pieces == Split(s, sep, 1, <<>>)
    IN  IF pieces[Len(pieces)] = <<>> THEN SubSeq(pieces, 1, Len(pieces) - 1)
        ELSE pieces

RECURSIVE encode_log(_, _)
encode_log(review_log, i) ==
    IF i > Len(review_log) THEN <<>>
    ELSE <<I64ToString(ReviewLogItem_encode(review_log[i]))>>
            \o encode_log(review_log, i + 1)

\* Card::format_to_tsv
format_to_tsv(card, current_date) ==
    Join(<<I32ToString(card.fsrs_state.review_date - current_date),
           F64ToString(card.fsrs_state.difficulty),
           F64ToString(card.fsrs_state.stability),
           card.content.prefix,
           convert_to_singleline(card.content.front),
           convert_to_singleline(card.content.back),
           I32ToString(card.fsrs_state.date_added - current_date),
           BoolToString(first_review(card.fsrs_state)),
           I32ToString(card.fsrs_state.last_review - current_date)>>
            \o encode_log(card.fsrs_state.review_log, 1),
         TAB)

RECURSIVE decode_log(_, _, _)
\* The while loop of from_tsv: the log, "Err" for a text that is no i64, "Panic"
\* for unwrap() on the Err of ReviewLogItem::from
decode_log(fields, i, log) ==
    IF i > Len(fields) THEN [kind |-> "Ok", log |-> log]
    ELSE IF ~IsI64(fields[i]) THEN [kind |-> "Err", log |-> log]
    ELSE LET item == ReviewLogItem_from(ParseI64(fields[i]))
         IN  IF item = Err THEN [kind |-> "Panic", log |-> log]
             ELSE decode_log(fields, i + 1, Append(log, item))

\* Card::from_tsv: kind is "Ok" with the card, "Err" or "Panic"
from_tsv(input, current_date) ==
    LET fields == SplitTerminator(input, TAB)
        new == NewCard(CardContent(<<>>, <<>>, <<>>), 1)
    IN  IF \/ Len(fields) < 9
           \/ ~IsI32(fields[1]) \/ ~IsF64(fields[2]) \/ ~IsF64(fields[3])
           \/ ~IsI32(fields[7]) \/ ~IsBool(fields[8]) \/ ~IsI32(fields[9])
        THEN [kind |-> "Err", card |-> new]
        ELSE LET log == decode_log(fields, 10, <<>>)
             IN  [kind |-> log.kind,
                  card |->
                    [content |-> CardContent(fields[4],
                                             convert_from_singleline(fields[5]),
                                             convert_from_singleline(fields[6])),
                     fsrs_state |->
                       [date_added |-> current_date + ParseI32(fields[7]),
                        last_review |-> current_date + ParseI32(fields[9]),
                        review_date |-> current_date + ParseI32(fields[1]),
                        difficulty |-> ParseF64(fields[2]),
                        stability |-> ParseF64(fields[3]),
                        buried |-> FALSE,
                        complete_history |-> ParseBool(fields[8]),
                        review_log |-> log.log]]]

\* format_to_tsv of the card, with review_date as the reference date; last.arg
\* collects the rows
FormatToTsv ==
    /\ status = "ok"
    /\ nops > 0
    /\ last.op \in {"card", "from_tsv"}
    /\ last.result # "Err"
    /\ last' = [last EXCEPT !.op = "format_to_tsv",
                            !.arg = Append(@, format_to_tsv(cards[1], review_date))]
    /\ prev' = Snapshot
    /\ nops' = nops - 1
    /\ UNCHANGED <<generator, twin, base_cards, app>>
    /\ UNCHANGED <<cards, orphans, track_review_history, params, review_index,
                   review_indices, review_date, status, session>>

\* from_tsv of the row written last, with the same reference date
FromTsv ==
    /\ status = "ok"
    /\ nops > 0
    /\ last.op \in {"format_to_tsv", "input"}
    /\ \E r \in {from_tsv(last.arg[Len(last.arg)], review_date)} :
          /\ cards' = IF r.kind = "Ok" THEN <<r.card>> ELSE cards
          /\ status' = IF r.kind = "Panic" THEN "panic" ELSE status
          /\ last' = [last EXCEPT !.op = "from_tsv", !.result = r.kind]
    /\ prev' = Snapshot
    /\ nops' = nops - 1
    /\ UNCHANGED <<generator, twin, base_cards, app>>
    /\ UNCHANGED <<orphans, track_review_history, params, review_index,
                   review_indices, review_date, session>>

\* str::lines: the pieces between newlines, without an empty last piece and
\* without a carriage return at the end of a line
Lines(input) ==
    LET pieces == SplitTerminator(input, NL)
    IN  [k \in 1 .. Len(pieces) |->
            IF pieces[k] # <<>> /\ pieces[k][Len(pieces[k])] = "\r"
            THEN SubSeq(pieces[k], 1, Len(pieces[k]) - 1)
            ELSE pieces[k]]

RECURSIVE load_lines(_, _, _, _)
\* The for loop of Deck::load_from_tsv: kind is "Ok" with the cards pushed,
\* "Err" where from_tsv(line)? returns, "Panic" where from_tsv panics
load_lines(lines, date, i, cs) ==
    IF i > Len(lines) THEN [kind |-> "Ok", cards |-> cs]
    ELSE Once({IF r.kind = "Ok" THEN load_lines(lines, date, i + 1, Append(cs, r.card))
               ELSE [kind |-> r.kind, cards |-> <<>>] :
               r \in {from_tsv(lines[i], date)}})

\* Deck::load_from_tsv, date being Date::now()
load_from_tsv(input, date) == load_lines(Lines(input), date, 1, <<>>)

\* load_from_tsv of the input in last.arg, with review_date as today; the deck
\* is Deck::new() with the cards read, and exists only when the result is Ok
LoadFromTsv ==
    /\ status = "ok"
    /\ nops > 0
    /\ last.op = "input"
    /\ \E r \in {load_from_tsv(last.arg[Len(last.arg)], review_date)} :
          /\ cards' = IF r.kind = "Ok" THEN r.cards ELSE cards
          /\ status' = IF r.kind = "Panic" THEN "panic" ELSE status
          /\ last' = [last EXCEPT !.op = "load_from_tsv", !.result = r.kind]
    /\ prev' = Snapshot
    /\ nops' = nops - 1
    /\ UNCHANGED <<generator, twin, base_cards, app>>
    /\ UNCHANGED <<orphans, track_review_history, params, review_index,
                   review_indices, review_date, session>>

----------------------------------------------------------------------------
\* Cloze spans and derived cards (src/src/parsing.rs, src/src/card.rs)

\* str::find from the 1-based position: the position of the first match, 0 if
\* there is none
RECURSIVE FindFrom(_, _, _)
FindFrom(s, pat, i) ==
    IF i + Len(pat) - 1 > Len(s) THEN 0
    ELSE IF \A k \in 1 .. Len(pat) : s[i + k - 1] = pat[k] THEN i
    ELSE FindFrom(s, pat, i + 1)

Contains(s, pat) == FindFrom(s, pat, 1) # 0

BRACE_OPEN == <<"{", "{", "{">>
BRACE_CLOSE == <<"}", "}", "}">>
PAREN_OPEN == <<"(", "(", "(">>
PAREN_CLOSE == <<")", ")", ")">>
NoItem == <<>>

\* The body of next_brace and next_paren for the delimiters: the item found
\* from offset curr (0-based, as cloze_start and cloze_end are), NoItem where
\* find(..)? returns None; next_paren leaves after empty.
next_delimited(input, curr, open, close, keep_after) ==
    Once({IF start = 0 THEN NoItem
          ELSE Once({IF close_at = 0 THEN NoItem
                     ELSE LET cloze_start == start - 1
                              cloze_end == close_at - 1 + 3
                              cloze_end_offset ==
                                  IF input[cloze_end - 4 + 1] = BS THEN 4 ELSE 3
                          IN  [cloze_start |-> cloze_start,
                               cloze_end |-> cloze_end,
                               before |-> SubSeq(input, 1, cloze_start),
                               clozed |-> SubSeq(input, cloze_start + 3 + 1,
                                                 cloze_end - cloze_end_offset),
                               after |-> IF keep_after
                                         THEN SubSeq(input, cloze_end + 1, Len(input))
                                         ELSE <<>>] :
                     close_at \in {FindFrom(input, close, start)}}) :
          start \in {FindFrom(input, open, curr + 1)}})

\* A variant of next_brace that takes no notice of a backslash before the
\* closing delimiter
next_brace_unescaped(input, curr) ==
    Once({IF start = 0 THEN NoItem
          ELSE Once({IF close_at = 0 THEN NoItem
                     ELSE [cloze_start |-> start - 1,
                           cloze_end |-> close_at - 1 + 3,
                           before |-> SubSeq(input, 1, start - 1),
                           clozed |-> SubSeq(input, start - 1 + 3 + 1, close_at - 1),
                           after |-> SubSeq(input, close_at + 3, Len(input))] :
                     close_at \in {FindFrom(input, BRACE_CLOSE, start)}}) :
          start \in {FindFrom(input, BRACE_OPEN, curr + 1)}})

\* ClozeIterator::next_brace
next_brace(input, curr) == next_delimited(input, curr, BRACE_OPEN, BRACE_CLOSE, TRUE)

\* A variant of next_paren that takes no notice of a backslash before the
\* closing delimiter
next_paren_unescaped(input, curr) ==
    Once({IF start = 0 THEN NoItem
          ELSE Once({IF close_at = 0 THEN NoItem
                     ELSE [cloze_start |-> start - 1,
                           cloze_end |-> close_at - 1 + 3,
                           before |-> SubSeq(input, 1, start - 1),
                           clozed |-> SubSeq(input, start - 1 + 3 + 1, close_at - 1),
                           after |-> <<>>] :
                     close_at \in {FindFrom(input, PAREN_CLOSE, start)}}) :
          start \in {FindFrom(input, PAREN_OPEN, curr + 1)}})

\* ClozeIterator::next_paren
next_paren(input, curr) == next_delimited(input, curr, PAREN_OPEN, PAREN_CLOSE, FALSE)

\* Iterator::next for ClozeIterator (the two delimiter types)
next_item(cloze_type, input, curr) ==
    IF cloze_type = "TripleBrace" THEN next_brace(input, curr) ELSE next_paren(input, curr)

RECURSIVE cloze_items(_, _, _)
\* The items the iterator yields from offset curr on; self.curr = cloze_end
cloze_items(cloze_type, input, curr) ==
    IF curr > Len(input) THEN <<>>
    ELSE Once({IF item = NoItem THEN <<>>
               ELSE <<item>> \o cloze_items(cloze_type, input, item.cloze_end) :
               item \in {next_item(cloze_type, input, curr)}})

RECURSIVE replace_rest(_, _, _, _)
\* The for loop of replace_cloze and the text after the last item
replace_rest(input, items, k, prev_cloze_end) ==
    IF k > Len(items) THEN SubSeq(input, prev_cloze_end + 1, Len(input))
    ELSE SubSeq(input, prev_cloze_end + 1, items[k].cloze_start)
         \o items[k].clozed
         \o replace_rest(input, items, k + 1, items[k].cloze_end)

\* A variant of replace_cloze that leaves the markers in the text
replace_cloze_verbatim(input, cloze_type) == input

\* replace_cloze: the input with each span replaced by its hidden text
replace_cloze(input, cloze_type) ==
    Once({IF items = <<>> THEN input
          ELSE items[1].before \o items[1].clozed
               \o replace_rest(input, items, 2, items[1].cloze_end) :
          items \in {cloze_items(cloze_type, input, 0)}})

PLACEHOLDER == <<"{", ".", ".", ".", "}">>

\* The card create_basic_cloze_cards builds for the item at the index
cloze_card(card, cloze_type, index, cloze_item, base) ==
    [fsrs_state |-> FSRSState_new(card.fsrs_state.date_added),
     content |-> [prefix |-> card.content.prefix,
                  front |-> card.content.front \o <<NL, NL>>
                            \o replace_cloze(cloze_item.before, cloze_type)
                            \o PLACEHOLDER
                            \o replace_cloze(cloze_item.after, cloze_type),
                  back |-> cloze_item.clozed,
                  editable |-> FALSE,
                  base |-> base,
                  child_index |-> index]]

\* CardCollection::create_basic_cloze_cards
create_basic_cloze_cards(collection, card, cloze_type) ==
    Once({[cards |-> collection.cards \o
                     [k \in 1 .. Len(items) |->
                         cloze_card(card, cloze_type, k - 1, items[k],
                                    Len(collection.base_cards))],
           base_cards |-> Append(collection.base_cards, card)] :
          items \in {cloze_items(cloze_type, card.content.back, 0)}})

\* CardCollection::create_cards
create_cards(collection, card) ==
    LET has_triple_braces == /\ Contains(card.content.back, BRACE_OPEN)
                             /\ Contains(card.content.back, BRACE_CLOSE)
        has_triple_paren == /\ Contains(card.content.back, PAREN_OPEN)
                            /\ Contains(card.content.back, PAREN_CLOSE)
    IN  IF ~has_triple_paren /\ ~has_triple_braces
        THEN [collection EXCEPT !.cards = Append(@, card)]
        ELSE IF has_triple_braces
        THEN create_basic_cloze_cards(collection, card, "TripleBrace")
        ELSE create_basic_cloze_cards(collection, card, "TripleParen")

RECURSIVE collection_from(_, _, _)
collection_from(collection, roots, i) ==
    IF i > Len(roots) THEN collection
    ELSE collection_from(create_cards(collection, roots[i]), roots, i + 1)

\* CardCollection::from
CardCollection_from(roots) ==
    collection_from([cards |-> <<>>, base_cards |-> <<>>], roots, 1)

\* CardCollection::from of the root cards in last.arg; the collection is kept
\* in cards and base_cards
CollectionFrom ==
    /\ status = "ok"
    /\ nops > 0
    /\ last.op = "roots"
    /\ \E collection \in {CardCollection_from(last.arg)} :
          /\ cards' = collection.cards
          /\ base_cards' = collection.base_cards
    /\ last' = [last EXCEPT !.op = "from", !.result = "Ok"]
    /\ prev' = Snapshot
    /\ nops' = nops - 1
    /\ UNCHANGED <<generator, twin, app>>
    /\ UNCHANGED <<orphans, track_review_history, params, review_index,
                   review_indices, review_date, status, session>>

\* Iterator::next on a ClozeIterator of type TripleBrace over the back of the
\* first root in last.arg: session holds self.curr and the items yielded so far
ClozeNext ==
    /\ status = "ok"
    /\ nops > 0
    /\ last.op \in {"roots", "next"}
    /\ ~(last.op = "next" /\ last.result = "None")
    /\ \E item \in {next_item("TripleBrace", last.arg[1].content.back, session.curr)} :
          /\ session' = IF item = NoItem THEN session
                        ELSE [curr |-> item.cloze_end, items |-> Append(session.items, item)]
          /\ last' = [last EXCEPT !.op = "next",
                                  !.result = IF item = NoItem THEN "None" ELSE "Some"]
    /\ prev' = Snapshot
    /\ nops' = nops - 1
    /\ UNCHANGED <<generator, twin, base_cards, app>>
    /\ UNCHANGED <<cards, orphans, track_review_history, params, review_index,
                   review_indices, review_date, status>>

\* The text with the paren delimiters replaced by the brace delimiters
with_braces(text) == Replace(Replace(text, PAREN_OPEN, BRACE_OPEN), PAREN_CLOSE, BRACE_CLOSE)

\* Iterator::next on a ClozeIterator of type TripleParen over the text in
\* last.arg and on one of type TripleBrace over the same text with the
\* delimiters replaced: session holds self.curr and the items of the two
ClozeNextParen ==
    /\ status = "ok"
    /\ nops > 0
    /\ last.op \in {"text", "next"}
    /\ ~(last.op = "next" /\ last.result = <<"None", "None">>)
    /\ \E item \in {next_item("TripleParen", last.arg[1], session.paren.curr)} :
       \E other \in {next_item("TripleBrace", with_braces(last.arg[1]),
                                session.brace.curr)} :
          /\ session' =
                [paren |-> IF item = NoItem THEN session.paren
                           ELSE [curr |-> item.cloze_end,
                                 items |-> Append(session.paren.items, item)],
                 brace |-> IF other = NoItem THEN session.brace
                           ELSE [curr |-> other.cloze_end,
                                 items |-> Append(session.brace.items, other)]]
          /\ last' = [last EXCEPT !.op = "next",
                                  !.result = <<IF item = NoItem THEN "None" ELSE "Some",
                                               IF other = NoItem THEN "None" ELSE "Some">>]
    /\ prev' = Snapshot
    /\ nops' = nops - 1
    /\ UNCHANGED <<generator, twin, base_cards, app>>
    /\ UNCHANGED <<cards, orphans, track_review_history, params, review_index,
                   review_indices, review_date, status>>

\* fix_card_new_lines: a text of a card with a newline in its front or back
\* ends with a newline
ends_with_newline(text) == text # <<>> /\ text[Len(text)] = NL
fix_card_new_lines(card) ==
    IF Contains(card.content.front, <<NL>>) \/ Contains(card.content.back, <<NL>>)
    THEN [card EXCEPT
            !.content.front = IF ends_with_newline(@) THEN @ ELSE Append(@, NL),
            !.content.back = IF ends_with_newline(@) THEN @ ELSE Append(@, NL)]
    ELSE card

\* The position (1-based) of the first card with the base and the child index,
\* 0 if there is none: the inner loop of edit_base_card
RECURSIVE find_child(_, _, _, _)
find_child(cs, base_card_index, child_index, j) ==
    IF j > Len(cs) THEN 0
    ELSE IF /\ cs[j].content.base = base_card_index
            /\ cs[j].content.child_index = child_index
    THEN j
    ELSE find_child(cs, base_card_index, child_index, j + 1)

RECURSIVE fill_cards_appending(_, _, _, _)
\* A variant of fill_cards that appends every derived card
fill_cards_appending(cs, derived, k, base_card_index) ==
    IF k > Len(derived) THEN cs
    ELSE fill_cards_appending(Append(cs, derived[k]), derived, k + 1, base_card_index)

RECURSIVE fill_cards(_, _, _, _)
\* 'outer: for clozed_card in collection.cards
fill_cards(cs, derived, k, base_card_index) ==
    IF k > Len(derived) THEN cs
    ELSE Once({IF j # 0
               THEN fill_cards([cs EXCEPT ![j].content =
                                   [derived[k].content EXCEPT !.base = base_card_index]],
                               derived, k + 1, base_card_index)
               ELSE fill_cards(Append(cs, derived[k]), derived, k + 1, base_card_index) :
               j \in {find_child(cs, base_card_index, derived[k].content.child_index, 1)}})

RECURSIVE prune_children(_, _, _)
\* The cards without those of the base card with a child index of n or more
prune_children(cs, base_card_index, n) ==
    IF cs = <<>> THEN <<>>
    ELSE IF /\ Head(cs).content.base = base_card_index
            /\ Head(cs).content.child_index >= n
    THEN prune_children(Tail(cs), base_card_index, n)
    ELSE <<Head(cs)>> \o prune_children(Tail(cs), base_card_index, n)

\* A variant of edit_base_card that drops the cards of the base card whose
\* child index the edit does not produce
edit_base_card_pruning(cs, bases, base_card_index, card) ==
    Once({[cards |-> prune_children(fill_cards(cs, derived, 1, base_card_index),
                                    base_card_index, Len(derived)),
           base_cards |-> [bases EXCEPT ![base_card_index + 1] = fix_card_new_lines(card)]] :
          derived \in {CardCollection_from(<<fix_card_new_lines(card)>>).cards}})

\* Deck::edit_base_card: the cards and base cards afterwards
edit_base_card(cs, bases, base_card_index, card) ==
    Once({[cards |-> fill_cards(cs, CardCollection_from(<<new_card>>).cards, 1,
                                base_card_index),
           base_cards |-> [bases EXCEPT ![base_card_index + 1] = new_card]] :
          new_card \in {fix_card_new_lines(card)}})

\* The cards given to edit_base_card: tests::new_card_with_back, added on day 1
EditFronts == {<<"f">>, <<"h">>}
EditBacks ==
    {<<"x">>, <<"x", NL, "y">>,
     BRACE_OPEN \o <<"c">> \o BRACE_CLOSE,
     BRACE_OPEN \o <<"c">> \o BRACE_CLOSE \o <<" ">> \o BRACE_OPEN \o <<"d">> \o BRACE_CLOSE,
     BRACE_OPEN \o <<"c">> \o BRACE_CLOSE \o BRACE_OPEN \o <<"d">> \o BRACE_CLOSE
        \o BRACE_OPEN \o <<"e">> \o BRACE_CLOSE}
\* The card under edit is fresh or was reviewed once
EditStates ==
    {FSRSState_new(1),
     [FSRSState_new(1) EXCEPT !.last_review = 2, !.review_date = 5,
                              !.difficulty = 5 * SCALE, !.stability = 3 * SCALE]}
EditCards ==
    {[content |-> CardContent(<<>>, front, back), fsrs_state |-> state] :
        front \in EditFronts, back \in EditBacks, state \in EditStates}

\* Deck::edit_base_card for a base card of the deck; the pair pushed to
\* edited_cards, which only save_to_file reads, is left out
EditBaseCard ==
    /\ Ready
    /\ \E base_card_index \in 0 .. Len(base_cards) - 1, new_card \in EditCards :
       \E r \in {edit_base_card(cards, base_cards, base_card_index, new_card)} :
          /\ cards' = r.cards
          /\ base_cards' = r.base_cards
          /\ last' = [NoOp EXCEPT !.op = "edit_base_card", !.result = "Ok",
                                  !.card = base_card_index, !.arg = <<new_card>>]
    /\ prev' = Snapshot
    /\ nops' = nops - 1
    /\ UNCHANGED <<generator, twin, app>>
    /\ UNCHANGED <<orphans, track_review_history, params, review_index,
                   review_indices, review_date, status, session>>

\* The collections CardCollection::from makes of one or two roots added on day 0
DeckRootBacks ==
    {<<"b">>,
     BRACE_OPEN \o <<"a">> \o BRACE_CLOSE,
     BRACE_OPEN \o <<"a">> \o BRACE_CLOSE \o <<" ">> \o BRACE_OPEN \o <<"b">> \o BRACE_CLOSE}
DeckRoots(front) == {NewCard(CardContent(<<>>, front, back), 0) : back \in DeckRootBacks}
ClozeCollections ==
    {CardCollection_from(<<first>>) : first \in DeckRoots(<<"f">>)}
    \cup {CardCollection_from(<<first, second>>) :
             first \in DeckRoots(<<"f">>), second \in DeckRoots(<<"g">>)}

\* Deck::replace_cards with a collection that holds derived cards
ReplaceCardsCloze == ReplaceCardsWith(ClozeCollections)

----------------------------------------------------------------------------
\* Application state with undo and redo (src/src/state.rs)

\* Option<Card>: no card, or the card
NoCard == <<>>
SomeCard(card) == <<card>>

\* A TmemoStateAction: its variant and the texts of its fields
Action(kind, arg, modifiers) == [kind |-> kind, arg |-> arg, modifiers |-> modifiers]

FindViewState_new == [search_input |-> <<>>, search_results |-> <<>>, search_index |-> 0]

AppDeck_new ==
    [cards |-> <<>>, orphans |-> <<>>, base_cards |-> <<>>,
     review_indices |-> <<>>, review_index |-> None]

DEFAULT_SEED == 42
MAIN_INDEX_MAX == 3

\* TMemoInternalState::new
TMemoInternalState_new ==
    [output_text |-> [text |-> "Welcome to tmemo!", count |-> 0],
     main_index |-> 0,
     review_show_back |-> FALSE,
     wants_to_quit |-> FALSE,
     view |-> "Main",
     deck |-> AppDeck_new,
     rng |-> from_seed(DEFAULT_SEED),
     current_card |-> NoCard,
     edit_mode |-> "None",
     edit_index |-> None,
     edit_return_view |-> "Review",
     find_state |-> FindViewState_new]

\* ApplicationState::new
ApplicationState_new ==
    [current_state |-> TMemoInternalState_new,
     undo_history |-> <<>>,
     undo_startpoint |-> TMemoInternalState_new,
     undo_index |-> 0]

\* The outcome of a handler: the state, the value it returns, and whether it
\* panicked on the way
Handled(state, success) == [state |-> state, success |-> success, panic |-> FALSE]
Panicked(state) == [state |-> state, success |-> FALSE, panic |-> TRUE]

WHITESPACE == {" ", TAB, NL, "\r"}

RECURSIVE split_whitespace(_, _)
\* str::split_whitespace: the words of the text after the word begun
split_whitespace(text, word) ==
    IF text = <<>> THEN (IF word = <<>> THEN <<>> ELSE <<word>>)
    ELSE IF Head(text) \in WHITESPACE
    THEN (IF word = <<>> THEN <<>> ELSE <<word>>) \o split_whitespace(Tail(text), <<>>)
    ELSE split_whitespace(Tail(text), Append(word, Head(text)))

\* Card::contains
card_contains(card, word) ==
    \/ Contains(card.content.front, word)
    \/ Contains(card.content.back, word)
    \/ Contains(card.content.prefix, word)

RECURSIVE find_cards_from(_, _, _)
find_cards_from(cs, words, index) ==
    IF index >= Len(cs) THEN <<>>
    ELSE (IF \A w \in 1 .. Len(words) : card_contains(CardAt(cs, index), words[w])
          THEN <<index>> ELSE <<>>) \o find_cards_from(cs, words, index + 1)

\* Deck::find_cards
find_cards(cs, search_input) == find_cards_from(cs, split_whitespace(search_input, <<>>), 0)

\* Deck::get_review_card on the deck of the application
deck_get_review_card(deck) ==
    IF deck.review_index # None
    THEN SomeCard(CardAt(deck.cards, deck.review_indices[deck.review_index + 1]))
    ELSE NoCard

\* TMemoInternalState::set_review_card
set_review_card(state) == [state EXCEPT !.current_card = deck_get_review_card(state.deck)]

\* TMemoInternalState::update_search_index
update_search_index(find_state) ==
    IF find_state.search_results = <<>>
    THEN [find_state EXCEPT !.search_index = 0]
    ELSE [find_state EXCEPT !.search_index = Min(@, Len(find_state.search_results) - 1)]

\* TMemoInternalState::update_search_results
update_search_results(state) ==
    [state EXCEPT !.find_state =
        update_search_index([@ EXCEPT !.search_results =
                                find_cards(state.deck.cards,
                                           state.find_state.search_input)])]

\* The collections given to ReplaceCards: every root is a base card and its
\* card links to it (tests::edit_works4)
AppRoots ==
    <<NewCard(CardContent(<<>>, <<"a">>, <<"b">>), 0),
      NewCard(CardContent(<<>>, <<"c">>, <<"d">>), 0)>>
AppCollection(roots) ==
    [cards |-> [i \in 1 .. Len(roots) |-> [roots[i] EXCEPT !.content.base = i - 1]],
     base_cards |-> roots]
AppCollections ==
    [name \in {"one", "two"} |->
        IF name = "one" THEN AppCollection(SubSeq(AppRoots, 1, 1))
        ELSE AppCollection(AppRoots)]

CountShown(cs) == Cardinality({i \in 1 .. Len(cs) : ~cs[i].fsrs_state.buried})

\* Deck::replace_cards on the deck of the application. The cards of the
\* collections given here have different fronts, so the order in which the map
\* is iterated does not show in the result.
deck_replace_cards(deck, collection) ==
    Once({[deck EXCEPT !.cards = r.cards, !.orphans = r.orphans,
                       !.base_cards = collection.base_cards] :
          r \in {replace_cards(adopted, Once(IterationOrders(adopted.map))) :
                 adopted \in {replace_adopted(deck.cards, deck.orphans, collection.cards)}}})

\* Deck::edit_card
deck_edit_card(deck, new_card, card_index) ==
    Once({[deck EXCEPT !.cards = r.cards, !.base_cards = r.base_cards] :
          r \in {edit_base_card(deck.cards, deck.base_cards,
                                CardAt(deck.cards, card_index).content.base, new_card)}})

\* char::to_uppercase for the keys of the model
to_uppercase(c) == IF c = "a" THEN "A" ELSE c

\* The text under edit: the front in EditFront mode, else the back
EditedText(state) ==
    IF state.edit_mode = "EditFront" THEN state.current_card[1].content.front
    ELSE state.current_card[1].content.back

WithEditedText(state, text) ==
    IF state.edit_mode = "EditFront"
    THEN [state EXCEPT !.current_card[1].content.front = text]
    ELSE [state EXCEPT !.current_card[1].content.back = text]

\* TMemoInternalState::handle_edit_key
handle_edit_key(state, c, modifiers) ==
    LET added == IF modifiers = "SHIFT" THEN to_uppercase(c) ELSE c
        str == EditedText(state)
        index == IF state.edit_index = None THEN Len(str) + 1 ELSE state.edit_index
    IN  IF state.current_card = NoCard THEN Panicked(state)
        ELSE IF str # <<>>
        THEN Handled([WithEditedText(state,
                         IF index <= 1 THEN <<added>> \o str
                         ELSE SubSeq(str, 1, index - 1) \o <<added>>
                              \o SubSeq(str, index, Len(str)))
                      EXCEPT !.edit_index = index + 1], TRUE)
        ELSE Handled(WithEditedText(state, <<added>>), TRUE)

\* TMemoInternalState::process_main_view
process_main_view(state, action) ==
    CASE action.kind = "ReplaceCards" ->
            Once({Handled([state EXCEPT !.deck = deck,
                              !.output_text = [text |-> "Loaded deck with",
                                               count |-> CountShown(deck.cards)]], TRUE) :
                  deck \in {deck_replace_cards(state.deck, AppCollections[action.arg])}})
      [] action.kind = "StartHotkeys" -> Handled([state EXCEPT !.view = "Hotkeys"], TRUE)
      [] action.kind = "Up" ->
            IF state.main_index = 0 THEN Handled(state, FALSE)
            ELSE Handled([state EXCEPT !.main_index = @ - 1], TRUE)
      [] action.kind = "Down" ->
            IF state.main_index = MAIN_INDEX_MAX THEN Handled(state, FALSE)
            ELSE Handled([state EXCEPT !.main_index = @ + 1], TRUE)
      [] OTHER -> Handled(state, FALSE)

\* TMemoInternalState::process_edit
process_edit(state, action) ==
    CASE action.kind = "FinishEdit" ->
            LET left == [state EXCEPT !.edit_mode = "None", !.view = state.edit_return_view]
                index == IF left.edit_return_view = "Review"
                         THEN left.deck.review_indices[left.deck.review_index + 1]
                         ELSE left.find_state.search_results[left.find_state.search_index + 1]
            IN  IF action.arg = "false" THEN Handled(set_review_card(left), TRUE)
                ELSE IF left.current_card = NoCard THEN Panicked(left)
                ELSE IF left.edit_return_view = "Review" /\ left.deck.review_index = None
                THEN Panicked(left)
                ELSE IF left.edit_return_view # "Review"
                        /\ left.find_state.search_index >= Len(left.find_state.search_results)
                THEN Panicked(left)
                ELSE Handled(set_review_card(
                        [left EXCEPT !.deck =
                            deck_edit_card(@, left.current_card[1], index)]), TRUE)
      [] action.kind = "StartEdit" ->
            IF state.current_card = NoCard THEN Panicked(state)
            ELSE IF ~state.current_card[1].content.editable THEN Panicked(state)
            ELSE Handled([state EXCEPT !.edit_mode = action.arg, !.edit_index = None], TRUE)
      [] action.kind = "RawKey" -> handle_edit_key(state, action.arg, action.modifiers)
      [] action.kind = "RawBackspace" ->
            IF state.current_card = NoCard THEN Panicked(state)
            ELSE LET str == EditedText(state)
                     index == IF state.edit_index = None THEN Len(str) + 1
                              ELSE state.edit_index
                 IN  IF str # <<>> /\ index > 1
                     THEN Handled([WithEditedText(state,
                                      SubSeq(str, 1, index - 2) \o SubSeq(str, index, Len(str)))
                                   EXCEPT !.edit_index = index - 1], TRUE)
                     ELSE Handled(state, FALSE)
      [] OTHER -> Panicked(state)

\* TMemoInternalState::process_find
process_find(state, action) ==
    CASE action.kind = "RawKey" /\ action.modifiers = "NONE" ->
            Handled(update_search_results(
                [state EXCEPT !.find_state.search_input = Append(@, action.arg)]), TRUE)
      [] action.kind = "RawKey" /\ action.modifiers = "SHIFT" ->
            Handled(update_search_results(
                [state EXCEPT !.find_state.search_input = Append(@, to_uppercase(action.arg))]),
                TRUE)
      [] action.kind = "RawBackspace" ->
            Handled(update_search_results(
                [state EXCEPT !.find_state.search_input =
                    IF @ = <<>> THEN @ ELSE SubSeq(@, 1, Len(@) - 1)]), TRUE)
      [] action.kind = "Up" ->
            Handled([state EXCEPT !.find_state.search_index = IF @ > 0 THEN @ - 1 ELSE @],
                    TRUE)
      [] action.kind = "Down" ->
            Handled([state EXCEPT !.find_state =
                        update_search_index([@ EXCEPT !.search_index = @ + 1])], TRUE)
      [] action.kind = "StartFindEdit" ->
            IF state.find_state.search_index >= Len(state.find_state.search_results)
            THEN Panicked(state)
            ELSE LET card_index ==
                         state.find_state.search_results[state.find_state.search_index + 1]
                     card == CardAt(state.deck.cards, card_index)
                     unset == [state EXCEPT !.edit_index = None]
                 IN  IF card_index >= Len(state.deck.cards) THEN Handled(state, FALSE)
                     ELSE IF ~card.content.editable THEN Handled(unset, FALSE)
                     ELSE IF card.content.base >= Len(state.deck.base_cards)
                     THEN Panicked(unset)
                     ELSE Handled([unset EXCEPT
                                     !.edit_mode = "EditFront",
                                     !.view = "Edit",
                                     !.current_card =
                                        SomeCard(state.deck.base_cards[card.content.base + 1]),
                                     !.edit_return_view = "Find"], FALSE)
      [] OTHER -> Handled(state, FALSE)

\* TMemoInternalState::process in the views that the actions of the model lead
\* to; the Review view is entered by the review actions only
process(state, action) ==
    CASE action.kind = "Quit" -> Handled([state EXCEPT !.wants_to_quit = TRUE], FALSE)
      [] action.kind = "EnterView" ->
            Handled([(IF action.arg = "Find"
                      THEN update_search_results([state EXCEPT !.find_state = FindViewState_new])
                      ELSE state)
                     EXCEPT !.view = action.arg], TRUE)
      [] OTHER ->
            CASE state.view = "Main" -> process_main_view(state, action)
              [] state.view = "Hotkeys" -> Handled(state, FALSE)
              [] state.view = "Find" -> process_find(state, action)
              [] state.view = "Edit" -> process_edit(state, action)

\* ApplicationState::redo
redo(application) ==
    IF application.undo_index = Len(application.undo_history) THEN application
    ELSE [application EXCEPT
            !.current_state =
                process(@, application.undo_history[application.undo_index + 1]).state,
            !.undo_index = @ + 1]

RECURSIVE redo_times(_, _)
\* redo called n times in a row
redo_times(application, n) ==
    IF n = 0 THEN application
    ELSE redo_times(redo(application), n - 1)

\* ApplicationState::undo
undo(application) ==
    IF application.undo_index = 0 \/ application.undo_history = <<>> THEN application
    ELSE redo_times([application EXCEPT !.undo_index = 0,
                                        !.current_state = application.undo_startpoint],
                    application.undo_index - 1)

\* ApplicationState::process for the actions that reach the internal state,
\* and for Undo and Redo
application_process(application, action) ==
    CASE action.kind = "Undo" -> [application |-> undo(application),
                                  panic |-> FALSE]
      [] action.kind = "Redo" -> [application |-> redo(application),
                                  panic |-> FALSE]
      [] OTHER ->
            Once({[application |->
                     IF r.success
                     THEN [application EXCEPT
                             !.current_state = r.state,
                             !.undo_history =
                                Append(SubSeq(@, 1, application.undo_index),
                                       action),
                             !.undo_index = @ + 1]
                     ELSE [application EXCEPT !.current_state = r.state],
                   panic |-> r.panic] :
                  r \in {process(application.current_state, action)}})

\* The actions the key bindings of the view produce (to_key_action and the
\* to_*_action functions), and ReplaceCards, which the loading of cards sends
\* in the Main view
NoArg == ""
RawKeys == {Action("RawKey", "a", modifiers) : modifiers \in {"NONE", "SHIFT"}}
ViewActions(view) ==
    CASE view = "Main" ->
            {Action("Down", NoArg, NoArg), Action("Up", NoArg, NoArg),
             Action("StartHotkeys", NoArg, NoArg), Action("EnterView", "Find", NoArg)}
            \cup {Action("ReplaceCards", name, NoArg) : name \in DOMAIN AppCollections}
      [] view = "Hotkeys" -> {Action("EnterView", "Main", NoArg)}
      [] view = "Find" ->
            {Action("EnterView", "Main", NoArg), Action("Down", NoArg, NoArg),
             Action("Up", NoArg, NoArg), Action("StartFindEdit", NoArg, NoArg),
             Action("RawBackspace", NoArg, NoArg)} \cup RawKeys
      [] view = "Edit" ->
            {Action("FinishEdit", "true", NoArg), Action("FinishEdit", "false", NoArg),
             Action("StartEdit", "EditBack", NoArg), Action("StartEdit", "EditFront", NoArg),
             Action("RawBackspace", NoArg, NoArg)} \cup RawKeys

\* What the run remembers of the states the application went through: the
\* state before and after each action of undo_history when it was processed,
\* and the application before the last call
Trail(application, action, after) ==
    IF action.kind \notin {"Undo", "Redo"} /\ after.undo_index = application.undo_index + 1
    THEN [before |-> Append(SubSeq(session.before, 1, application.undo_index),
                            application.current_state),
          after |-> Append(SubSeq(session.after, 1, application.undo_index),
                           after.current_state),
          was |-> application]
    ELSE [session EXCEPT !.was = application]

\* ApplicationState::process with an action of the current view, or Quit
Process ==
    /\ Ready
    /\ ~app.current_state.wants_to_quit
    /\ \E action \in ViewActions(app.current_state.view) \cup {Action("Quit", NoArg, NoArg)} :
       \E r \in {application_process(app, action)} :
          /\ app' = r.application
          /\ status' = IF r.panic THEN "panic" ELSE status
          /\ cards' = r.application.current_state.deck.cards
          /\ orphans' = r.application.current_state.deck.orphans
          /\ base_cards' = r.application.current_state.deck.base_cards
          /\ session' = Trail(app, action, r.application)
          /\ last' = [NoOp EXCEPT !.op = action.kind, !.arg = <<action>>,
                                  !.result = IF r.panic THEN "panic" ELSE "Ok"]
    /\ prev' = Snapshot
    /\ nops' = nops - 1
    /\ UNCHANGED <<generator, twin>>
    /\ UNCHANGED <<track_review_history, params, review_index, review_indices,
                   review_date>>

\* ApplicationState::process with Undo
Undo ==
    /\ Ready
    /\ ~app.current_state.wants_to_quit
    /\ \E action \in {Action("Undo", NoArg, NoArg)} :
       \E r \in {application_process(app, action)} :
          /\ app' = r.application
          /\ status' = IF r.panic THEN "panic" ELSE status
          /\ cards' = r.application.current_state.deck.cards
          /\ orphans' = r.application.current_state.deck.orphans
          /\ base_cards' = r.application.current_state.deck.base_cards
          /\ session' = Trail(app, action, r.application)
          /\ last' = [NoOp EXCEPT !.op = action.kind, !.arg = <<action>>,
                                  !.result = IF r.panic THEN "panic" ELSE "Ok"]
    /\ prev' = Snapshot
    /\ nops' = nops - 1
    /\ UNCHANGED <<generator, twin>>
    /\ UNCHANGED <<track_review_history, params, review_index, review_indices,
                   review_date>>

\* ApplicationState::process with Redo
Redo ==
    /\ Ready
    /\ ~app.current_state.wants_to_quit
    /\ \E action \in {Action("Redo", NoArg, NoArg)} :
       \E r \in {application_process(app, action)} :
          /\ app' = r.application
          /\ status' = IF r.panic THEN "panic" ELSE status
          /\ cards' = r.application.current_state.deck.cards
          /\ orphans' = r.application.current_state.deck.orphans
          /\ base_cards' = r.application.current_state.deck.base_cards
          /\ session' = Trail(app, action, r.application)
          /\ last' = [NoOp EXCEPT !.op = action.kind, !.arg = <<action>>,
                                  !.result = IF r.panic THEN "panic" ELSE "Ok"]
    /\ prev' = Snapshot
    /\ nops' = nops - 1
    /\ UNCHANGED <<generator, twin>>
    /\ UNCHANGED <<track_review_history, params, review_index, review_indices,
                   review_date>>

----------------------------------------------------------------------------
\* Deck: runs with a seeded generator (src/src/deck.rs, src/src/cmd.rs)

\* A run is the deck's session state with the generator the caller passes in,
\* the cards presented so far, and noise: what else a process could draw
\* randomness from (clock, hasher seed), which no two runs share.
RunOf ==
    [cards |-> cards, review_index |-> review_index,
     review_indices |-> review_indices, review_date |-> review_date,
     generator |-> generator, status |-> status, shown |-> session.shown,
     noise |-> 0]

\* A variant of draw that mixes the run's noise into the generator
draw_ambient(run) == next_rand(wrapping_add(run.generator, U64(run.noise)))

\* generator.next_rand() on the generator passed by the caller
draw(run) == next_rand(run.generator)

\* Deck::gen_review_index with the generator of the run
run_gen_review_index(run) ==
    IF Len(run.review_indices) >= 2
    THEN Once({[run EXCEPT !.generator = r.state,
                           !.review_index =
                              gen_review_index(run.review_indices, run.review_index,
                                               U64Mod(r.value, Len(run.review_indices)))] :
               r \in {draw(run)}})
    ELSE [run EXCEPT !.review_index =
                        gen_review_index(run.review_indices, run.review_index, 0)]

run_start_review(run, date) ==
    Once({run_gen_review_index(r1) :
          r1 \in {[run EXCEPT !.review_indices = get_indices_to_review(run.cards, date),
                              !.review_date = date]}})

run_start_all_review(run, date) ==
    Once({run_gen_review_index(r1) :
          r1 \in {[run EXCEPT !.review_indices = all_indices_from(run.cards, 0),
                              !.review_date = date]}})

RECURSIVE draw_indices(_, _, _)
\* n values of next_rand() as usize % self.cards.len(), and the run afterwards
draw_indices(run, n, rnds) ==
    IF n = 0 THEN [run |-> run, rnds |-> rnds]
    ELSE Once({draw_indices(r1, n - 1, rnds1) :
               <<r1, rnds1>> \in
                  {<<[run EXCEPT !.generator = r.state],
                     Append(rnds, U64Mod(r.value, Len(run.cards)))>> :
                   r \in {draw(run)}}})

run_start_random_review(run, date, review_count) ==
    Once({IF indices = NeverEnds THEN [run EXCEPT !.status = "hang"]
          ELSE Once({run_gen_review_index(r1) :
                     r1 \in {[drawn.run EXCEPT !.review_indices = indices,
                                               !.review_date = date]}}) :
          <<drawn, indices>> \in
             {<<d, random_indices(run.cards, d.rnds, 1, <<>>)>> :
              d \in {draw_indices(run, Min(review_count, Len(run.cards)), <<>>)}}})

\* The run after the match on the review result res in Deck::review_card, g
\* being the generator after review_with_rng
run_after_review(run, card_index, res, g) ==
    IF res[2] = "Panic" THEN [run EXCEPT !.status = "panic"]
    ELSE Once({run_gen_review_index(r1) :
               r1 \in {[run EXCEPT
                          !.generator = g,
                          !.cards = apply_review_offset(
                                       [run.cards EXCEPT ![card_index + 1].fsrs_state = res[1]],
                                       card_index, res[2]),
                          !.review_indices =
                              active_after(run.review_indices, run.review_index, res[2])]}})

\* Deck::review_card: review_with_rng draws the fraction, gen_review_index the
\* next position
run_review_card(run, answer, track, p) ==
    IF \/ run.review_index = None
       \/ run.review_index >= Len(run.review_indices)
       \/ run.review_date = None
    THEN [run EXCEPT !.status = "panic"]
    ELSE Once({run_after_review(run, card_index, res, g) :
               <<card_index, res, g>> \in
                  {<<run.review_indices[run.review_index + 1],
                     review(CardAt(run.cards, run.review_indices[run.review_index + 1]).fsrs_state,
                            answer, run.review_date, track,
                            next_float(unit_fraction(r.value),
                                       SCALE - RANDOMNESS, SCALE + RANDOMNESS), p),
                     r.state>> :
                   r \in {draw(run)}}})

\* A variant of fractional_review_date without the floor of one day
fractional_review_date_unfloored(state, value) ==
    state.last_review
       + Round(Mul((state.review_date - state.last_review) * SCALE, value))

\* The due date random_reschedule_fractional gives a card, value being the
\* factor drawn
fractional_review_date(state, value) ==
    state.last_review
       + Max(Round(Mul((state.review_date - state.last_review) * SCALE, value)), 1)

RECURSIVE run_random_reschedule_fractional(_, _, _)
\* Deck::random_reschedule_fractional from card i (1-based) on
run_random_reschedule_fractional(run, frac_diff, i) ==
    IF i > Len(run.cards) THEN run
    ELSE IF run.cards[i].fsrs_state.buried
    THEN run_random_reschedule_fractional(run, frac_diff, i + 1)
    ELSE Once({run_random_reschedule_fractional(r1, frac_diff, i + 1) :
               r1 \in
                  {[run EXCEPT
                      !.generator = r.state,
                      !.cards[i].fsrs_state.review_date =
                          fractional_review_date(
                              run.cards[i].fsrs_state,
                              next_float(unit_fraction(r.value), SCALE - frac_diff,
                                         SCALE + frac_diff))] :
                   r \in {draw(run)}}})

\* Deck::random_reschedule_fractional with a generator in any state: fracs[i]
\* is the unit fraction drawn for card i
random_reschedule_fractional(cs, frac_diff, fracs) ==
    [i \in 1 .. Len(cs) |->
        IF cs[i].fsrs_state.buried THEN cs[i]
        ELSE [cs[i] EXCEPT !.fsrs_state.review_date =
                 fractional_review_date(cs[i].fsrs_state,
                                        next_float(fracs[i], SCALE - frac_diff,
                                                   SCALE + frac_diff))]]

\* The fractions f of [0, 1] given to random_reschedule_fractional
UnitFracDiffs == {0, SCALE \div 10, SCALE}

RandomRescheduleFractional ==
    /\ Ready
    /\ \E frac_diff \in UnitFracDiffs, fracs \in [1 .. Len(cards) -> UnitFractions] :
          /\ cards' = random_reschedule_fractional(cards, frac_diff, fracs)
          /\ last' = [NoOp EXCEPT !.op = "random_reschedule_fractional", !.result = "Ok",
                                  !.arg = <<frac_diff, fracs>>]
    /\ prev' = Snapshot
    /\ nops' = nops - 1
    /\ UNCHANGED <<generator, twin, base_cards, app>>
    /\ UNCHANGED <<orphans, track_review_history, params, review_index,
                   review_indices, review_date, status, session>>

\* Deck::get_review_card of a run, appended to the cards presented
present(run) ==
    IF run.status = "ok" /\ run.review_index # None
    THEN [run EXCEPT !.shown = Append(@, run.review_indices[run.review_index + 1])]
    ELSE run

\* One operation: its name and its inputs
run_step(run, op, track, p) ==
    Once({present(r1) :
          r1 \in {CASE op[1] = "start_review" -> run_start_review(run, op[2])
                    [] op[1] = "start_all_review" -> run_start_all_review(run, op[2])
                    [] op[1] = "start_random_review" ->
                          run_start_random_review(run, op[2], op[3])
                    [] op[1] = "review_card" -> run_review_card(run, op[2], track, p)
                    [] op[1] = "random_reschedule_fractional" ->
                          run_random_reschedule_fractional(run, op[2], 1)}})

\* The operation applied to the deck and to its twin; last.arg keeps the
\* generator the operation started from
TwinStep(op) ==
    /\ Ready
    /\ twin.status = "ok"
    /\ \E run \in {RunOf} :
       \E a \in {run_step(run, op, track_review_history, params)},
          b \in {run_step(twin, op, track_review_history, params)} :
          /\ cards' = a.cards
          /\ review_index' = a.review_index
          /\ review_indices' = a.review_indices
          /\ review_date' = a.review_date
          /\ generator' = a.generator
          /\ status' = a.status
          /\ session' = [shown |-> a.shown]
          /\ twin' = b
    /\ last' = [NoOp EXCEPT !.op = op[1], !.arg = <<generator>>]
    /\ prev' = Snapshot
    /\ nops' = nops - 1
    /\ UNCHANGED <<orphans, track_review_history, params, base_cards, app>>

FracDiffs == {SCALE \div 10, SCALE \div 2}

SeededStartReview == \E date \in Days : TwinStep(<<"start_review", date>>)
SeededStartAllReview == \E date \in Days : TwinStep(<<"start_all_review", date>>)
SeededStartRandomReview ==
    \E date \in Days, review_count \in {2, MaxReviewCount} :
        TwinStep(<<"start_random_review", date, review_count>>)
SeededReviewCard == \E answer \in ReviewAnswer : TwinStep(<<"review_card", answer>>)
SeededRandomReschedule ==
    \E frac_diff \in FracDiffs : TwinStep(<<"random_reschedule_fractional", frac_diff>>)

----------------------------------------------------------------------------
\* Specifications

NumCards == 3
MaxOps == 4
MaxOpsCard == 5
TargetRetentions == {9000, 9900}

\* A deck as replace_cards leaves it on a new Deck: the n cards of a collection,
\* sorted by front, card i with FSRSState::new(dates[i])
DeckOf(n, dates) ==
    [i \in 1 .. n |->
        NewCard(CardContent(<<>>, <<Digits[(i \div 10) + 1], Digits[(i % 10) + 1]>>, <<>>),
                dates[i])]

NoSnapshot == [cards |-> <<>>, orphans |-> <<>>, review_indices |-> <<>>,
               review_index |-> None, op |-> "new", arg |-> <<>>,
               base_cards |-> <<>>]

\* Deck::new, with the given cards, configuration and operation budget
DeckInit(cs, track, target_retention, ops) ==
    /\ cards = cs
    /\ orphans = <<>>
    /\ track_review_history = track
    /\ params = [FSRSParams_new EXCEPT !.target_retention = target_retention]
    /\ review_index = None
    /\ review_indices = <<>>
    /\ review_date = None
    /\ status = "ok"
    /\ last = NoOp
    /\ prev = NoSnapshot
    /\ session = NoSession
    /\ nops = ops
    /\ generator = NoGenerator
    /\ twin = NoTwin
    /\ base_cards = <<>>
    /\ app = NoApp

\* Review sessions on a deck of NumCards cards with the default configuration
Init ==
    \E dates \in [1 .. NumCards -> Days] :
        DeckInit(DeckOf(NumCards, dates), FALSE, FSRSParams_new.target_retention, MaxOps)

Next ==
    \/ StartReview
    \/ StartAllReview
    \/ StopReview
    \/ ReviewCard
    \/ ReviewCardPanic

Spec == Init /\ [][Next]_vars

\* Longer runs of sessions on a deck of one card
InitCard ==
    \E track \in BOOLEAN, tr \in TargetRetentions :
        DeckInit(DeckOf(1, <<0>>), track, tr, MaxOpsCard)

SpecCard == InitCard /\ [][Next]_vars

\* Reconciliation of a new deck with successive collections, with sessions
MaxOpsReplace == 4

InitReplace ==
    DeckInit(<<>>, FALSE, FSRSParams_new.target_retention, MaxOpsReplace)

NextReplace ==
    \/ ReplaceCards
    \/ StartAllReview
    \/ ReviewCard
    \/ ReviewCardPanic

SpecReplace == InitReplace /\ [][NextReplace]_vars

\* Reconciliation alone, with longer collections
MaxOpsMerge == 2

InitMerge ==
    DeckInit(<<>>, FALSE, FSRSParams_new.target_retention, MaxOpsMerge)

NextMerge == ReplaceCardsMerge

SpecMerge == InitMerge /\ [][NextMerge]_vars

\* Sessions started by start_random_review, with cards buried in between
MaxOpsRandom == 3

InitRandom ==
    \E dates \in [1 .. NumCards -> {0}] :
        DeckInit(DeckOf(NumCards, dates), FALSE, FSRSParams_new.target_retention,
                 MaxOpsRandom)

NextRandom ==
    \/ StartRandomReview
    \/ ReviewCard
    \/ ReviewCardPanic

SpecRandom == InitRandom /\ [][NextRandom]_vars

\* Rescheduling of a deck whose cards are reviewed and buried in between
NumCardsReschedule == 4
MaxOpsReschedule == 3

InitReschedule ==
    \E dates \in [1 .. NumCardsReschedule -> Days] :
        DeckInit(DeckOf(NumCardsReschedule, dates), FALSE,
                 FSRSParams_new.target_retention, MaxOpsReschedule)

NextReschedule ==
    \/ Reschedule
    \/ StartAllReview
    \/ ReviewCard
    \/ ReviewCardPanic

SpecReschedule == InitReschedule /\ [][NextReschedule]_vars

\* Encoding and decoding of one review-log entry
MaxOpsLog == 2

InitLog ==
    /\ cards = <<>>
    /\ orphans = <<>>
    /\ track_review_history = TRUE
    /\ params = FSRSParams_new
    /\ review_index = None
    /\ review_indices = <<>>
    /\ review_date = None
    /\ status = "ok"
    /\ \E answer \in ReviewAnswer, day \in DayValues :
          last = [NoOp EXCEPT !.op = "item", !.answer = answer, !.date = day]
    /\ prev = NoSnapshot
    /\ session = NoSession
    /\ nops = MaxOpsLog
    /\ generator = NoGenerator
    /\ twin = NoTwin
    /\ base_cards = <<>>
    /\ app = NoApp

NextLog ==
    \/ LogEncode
    \/ LogFrom

SpecLog == InitLog /\ [][NextLog]_vars

\* Cards written to a TSV row, read back and written again
MaxFrontLen == 4
MaxLogLen == 2
MaxOpsTsv == 3
StrChars == {BS, "n", "t", "[", "]", NL, TAB}
Strings(n) == UNION {[1 .. k -> StrChars] : k \in 0 .. n}
LogItems == [answer : ReviewAnswer, day : {0 - 1, 1000, I32_MAX}]
ReviewLogs == UNION {[1 .. k -> LogItems] : k \in 0 .. MaxLogLen}

\* The card of tests::tsv_conversion_works with the given texts, history and
\* difficulty
TsvCard(prefix, front, back, complete_history, difficulty, review_log) ==
    [content |-> CardContent(prefix, front, back),
     fsrs_state |-> [FSRSState_new(5) EXCEPT !.review_date = 999,
                                            !.last_review = 995,
                                            !.complete_history = complete_history,
                                            !.difficulty = difficulty,
                                            !.stability = 32456,
                                            !.review_log = review_log]]

TsvCards ==
    {TsvCard(prefix, front, <<"a", NL, TAB, BS, BS, "t">>, FALSE, 41235, <<>>) :
        prefix \in {<<>>, <<"a">>}, front \in Strings(MaxFrontLen)}
    \cup
    {TsvCard(<<"a">>, <<"b">> \o x[1], x[1], x[2], x[3], x[4]) :
        x \in Strings(1) \X BOOLEAN \X {0, 41235} \X ReviewLogs}

InitTsv ==
    /\ \E card \in TsvCards : cards = <<card>>
    /\ orphans = <<>>
    /\ track_review_history = TRUE
    /\ params = FSRSParams_new
    /\ review_index = None
    /\ review_indices = <<>>
    /\ review_date \in {0, 1000}
    /\ status = "ok"
    /\ last = [NoOp EXCEPT !.op = "card"]
    /\ prev = NoSnapshot
    /\ session = NoSession
    /\ nops = MaxOpsTsv
    /\ generator = NoGenerator
    /\ twin = NoTwin
    /\ base_cards = <<>>
    /\ app = NoApp

NextTsv ==
    \/ FormatToTsv
    \/ FromTsv

SpecTsv == InitTsv /\ [][NextTsv]_vars

\* Two runs of the session operations from the same deck and the same seed
MaxOpsSeeded == 3
\* The seeds of cmd.rs and of state.rs
Seeds == {0, 42}

InitSeeded ==
    /\ \E dates \in [1 .. NumCards -> Days] : cards = DeckOf(NumCards, dates)
    /\ orphans = <<>>
    /\ track_review_history = FALSE
    /\ params = FSRSParams_new
    /\ review_index = None
    /\ review_indices = <<>>
    /\ review_date = None
    /\ status = "ok"
    /\ last = NoOp
    /\ prev = NoSnapshot
    /\ session = [shown |-> <<>>]
    /\ nops = MaxOpsSeeded
    /\ \E seed \in Seeds : generator = from_seed(seed)
    /\ twin = [RunOf EXCEPT !.noise = 1]
    /\ base_cards = <<>>
    /\ app = NoApp

NextSeeded ==
    \/ SeededStartReview
    \/ SeededStartAllReview
    \/ SeededStartRandomReview
    \/ SeededReviewCard
    \/ SeededRandomReschedule

SpecSeeded == InitSeeded /\ [][NextSeeded]_vars

\* Rows handed to from_tsv and load_from_tsv: rows format_to_tsv wrote, and
\* such rows cut short, with a field that is no number, or with a review-log
\* entry of an outcome code outside 0..4
MaxInputRows == 2
MaxOpsLoad == 1
WrittenRows ==
    {format_to_tsv(TsvCard(<<>>, <<"a">>, <<>>, FALSE, 40000, log), 1000) :
        log \in {<<>>, <<[answer |-> "Good", day |-> 1000]>>}}
NotANumber == <<"x">>
UnknownCodes == {5, 255, 0 - 1}
\* The row with its first n fields only
CutRow(row, n) == Join(SubSeq(SplitTerminator(row, TAB), 1, n), TAB)
\* The row with field j replaced
WithField(row, j, text) == Join([SplitTerminator(row, TAB) EXCEPT ![j] = text], TAB)
\* The row with one more review-log field
WithLogField(row, text) == row \o <<TAB>> \o text
MalformedRows ==
    {CutRow(row, n) : row \in WrittenRows, n \in 1 .. 8}
    \cup {WithField(row, j, NotANumber) : row \in WrittenRows, j \in {1, 2, 3, 7, 8, 9}}
    \cup {WithLogField(row, NotANumber) : row \in WrittenRows}
    \cup {WithLogField(row, I64ToString([hi |-> code, lo |-> 1000])) :
             row \in WrittenRows, code \in UnknownCodes}
InputRows == WrittenRows \cup MalformedRows
Inputs ==
    {Join(rows, NL) :
        rows \in UNION {[1 .. k -> InputRows] : k \in 1 .. MaxInputRows}}

InitLoad ==
    /\ cards = <<>>
    /\ orphans = <<>>
    /\ track_review_history = TRUE
    /\ params = FSRSParams_new
    /\ review_index = None
    /\ review_indices = <<>>
    /\ review_date = 1000
    /\ status = "ok"
    /\ \E input \in Inputs : last = [NoOp EXCEPT !.op = "input", !.arg = <<input>>]
    /\ prev = NoSnapshot
    /\ session = NoSession
    /\ nops = MaxOpsLoad
    /\ generator = NoGenerator
    /\ twin = NoTwin
    /\ base_cards = <<>>
    /\ app = NoApp

NextLoad ==
    \/ FromTsv
    \/ LoadFromTsv

SpecLoad == InitLoad /\ [][NextLoad]_vars

\* Collections made of one or two root cards, and the cloze iterator over the
\* back of the first: the backs are made of up to MaxPieces pieces
MaxPieces == 4
MaxOpsCloze == 3
Pieces ==
    {<<"{", "{", "{", "a", "}", "}", "}">>,
     <<"{", "{", "{", "a", "}", BS, "}", "}", "}">>,
     <<"(", "(", "(", "c", ")", ")", ")">>,
     BRACE_OPEN, BRACE_CLOSE, <<"}">>, <<" ">>, <<"b">>}
RECURSIVE Concat(_)
Concat(texts) == IF texts = <<>> THEN <<>> ELSE Head(texts) \o Concat(Tail(texts))
\* The back of tests::escaping_cloze_works
TestBack == <<"{", "{", "{", "t", "e", "s", "t", "}", BS, "}", "}", "}", "}">>
Backs ==
    {Concat(pieces) : pieces \in UNION {[1 .. n -> Pieces] : n \in 1 .. MaxPieces}}
    \cup {TestBack}
SecondBacks == {<<"b">>, <<"{", "{", "{", "a", "}", "}", "}">>, BRACE_CLOSE \o BRACE_OPEN}
\* A card as parsing::create_cards makes it
RootCard(front, back) ==
    [content |-> [CardContent(<<"p">>, front, back) EXCEPT !.base = None,
                                                          !.child_index = None],
     fsrs_state |-> FSRSState_new(0)]
RootLists ==
    {<<RootCard(<<"f">>, back)>> : back \in Backs}
    \cup {<<RootCard(<<"f">>, back), RootCard(<<"g">>, second)>> :
             back \in Backs, second \in SecondBacks}

InitCloze ==
    /\ cards = <<>>
    /\ orphans = <<>>
    /\ track_review_history = FALSE
    /\ params = FSRSParams_new
    /\ review_index = None
    /\ review_indices = <<>>
    /\ review_date = None
    /\ status = "ok"
    /\ \E roots \in RootLists : last = [NoOp EXCEPT !.op = "roots", !.arg = roots]
    /\ prev = NoSnapshot
    /\ session = [curr |-> 0, items |-> <<>>]
    /\ nops = MaxOpsCloze
    /\ generator = NoGenerator
    /\ twin = NoTwin
    /\ base_cards = <<>>
    /\ app = NoApp

NextCloze ==
    \/ CollectionFrom
    \/ ClozeNext

SpecCloze == InitCloze /\ [][NextCloze]_vars

\* The paren iterator and the brace iterator side by side, over texts without
\* braces made of up to MaxPieces pieces
MaxOpsParen == 3
ParenPieces ==
    {<<"(", "(", "(", "a", ")", ")", ")">>,
     <<"(", "(", "(", "a", ")", BS, ")", ")", ")">>,
     PAREN_OPEN, PAREN_CLOSE, <<"(">>, <<")">>, <<" ">>, <<"b">>}
ParenTexts ==
    {Concat(pieces) : pieces \in UNION {[1 .. n -> ParenPieces] : n \in 1 .. MaxPieces}}

InitParen ==
    /\ cards = <<>>
    /\ orphans = <<>>
    /\ track_review_history = FALSE
    /\ params = FSRSParams_new
    /\ review_index = None
    /\ review_indices = <<>>
    /\ review_date = None
    /\ status = "ok"
    /\ \E text \in ParenTexts : last = [NoOp EXCEPT !.op = "text", !.arg = <<text>>]
    /\ prev = NoSnapshot
    /\ session = [paren |-> [curr |-> 0, items |-> <<>>],
                  brace |-> [curr |-> 0, items |-> <<>>]]
    /\ nops = MaxOpsParen
    /\ generator = NoGenerator
    /\ twin = NoTwin
    /\ base_cards = <<>>
    /\ app = NoApp

NextParen == ClozeNextParen

SpecParen == InitParen /\ [][NextParen]_vars

\* Edits of base cards in a deck filled from collections with derived cards
MaxOpsEdit == 3

InitEdit == DeckInit(<<>>, FALSE, FSRSParams_new.target_retention, MaxOpsEdit)

NextEdit ==
    \/ ReplaceCardsCloze
    \/ EditBaseCard

SpecEdit == InitEdit /\ [][NextEdit]_vars

\* Fractional rescheduling of decks of reviewed, new and buried cards
NumCardsFractional == 3
MaxOpsFractional == 2
\* Days from the last review to the due date
FractionalIntervals == {0, 10, 11}

FractionalCard(i, last_review, days, buried) ==
    [DeckOf(NumCardsFractional, [k \in 1 .. NumCardsFractional |-> 0])[i]
        EXCEPT !.fsrs_state.last_review = last_review,
               !.fsrs_state.review_date = last_review + days,
               !.fsrs_state.buried = buried]

InitFractional ==
    \E lasts \in [1 .. NumCardsFractional -> Days],
       days \in [1 .. NumCardsFractional -> FractionalIntervals],
       buried \in BOOLEAN :
        DeckInit([i \in 1 .. NumCardsFractional |->
                     FractionalCard(i, lasts[i], days[i], buried /\ i = NumCardsFractional)],
                 FALSE, FSRSParams_new.target_retention, MaxOpsFractional)

NextFractional == RandomRescheduleFractional

SpecFractional == InitFractional /\ [][NextFractional]_vars

\* The application from its start, with undo and redo
MaxOpsApp == 6

InitApp ==
    /\ cards = <<>>
    /\ orphans = <<>>
    /\ track_review_history = FALSE
    /\ params = FSRSParams_new
    /\ review_index = None
    /\ review_indices = <<>>
    /\ review_date = None
    /\ status = "ok"
    /\ last = NoOp
    /\ prev = NoSnapshot
    /\ session = [before |-> <<>>, after |-> <<>>, was |-> ApplicationState_new]
    /\ nops = MaxOpsApp
    /\ generator = NoGenerator
    /\ twin = NoTwin
    /\ base_cards = <<>>
    /\ app = ApplicationState_new

NextApp ==
    \/ Process
    \/ Undo
    \/ Redo

SpecApp == InitApp /\ [][NextApp]_vars

----------------------------------------------------------------------------
\* Claims

SeqSet(seq) == {seq[i] : i \in 1 .. Len(seq)}
NoDuplicates(seq) == Cardinality(SeqSet(seq)) = Len(seq)
Reviewed == last.op = "review_card" /\ last.result # "Panic"

\* C1: after any sequence of reviews through Deck.review_card, every card's
\* review_date is on or after its last_review.
C1_ReviewDateOnOrAfterLastReview ==
    \A i \in 1 .. Len(cards) :
        cards[i].fsrs_state.review_date >= cards[i].fsrs_state.last_review

\* C2: review_card removes the answered card's index from the active set exactly
\* when the result is Discard (Hard, Good, Easy or Bury), keeping the other
\* indices; on Again the active set is unchanged; so a session started with k
\* active cards has ended exactly when k Discard results were given.
C2_DiscardShrinksActiveSet ==
    /\ Reviewed =>
         /\ (last.result = "Discard") <=> (last.answer \in {"Hard", "Good", "Easy", "Bury"})
         /\ last.result = "Discard" =>
              /\ review_indices = RemoveAt(prev.review_indices, prev.review_index)
              /\ Len(review_indices) = Len(prev.review_indices) - 1
         /\ last.result = "Again" => review_indices = prev.review_indices
    /\ Len(review_indices) = session.k - session.discards
    /\ (get_review_card = None) <=> (session.discards = session.k)
    /\ (review_index = None) <=> (session.discards = session.k)

\* A session of two or more cards ended by its last Discard, with an Again given
C2_SessionEnded ==
    /\ Reviewed
    /\ last.result = "Discard"
    /\ session.k >= 2
    /\ session.agains >= 1
    /\ session.discards = session.k
    /\ review_index = None

\* C3: after an answer, if at least two indices remain active, the current card
\* is not the card that was just answered.
C3_NoImmediateRepeat ==
    (Reviewed /\ Len(review_indices) >= 2) => get_review_card # last.card

\* An Again answer with two or more cards still active
C3_AgainAmongSeveral ==
    /\ Reviewed
    /\ last.result = "Again"
    /\ Len(review_indices) >= 2
    /\ get_review_card # None

\* C10: start_review(date) activates exactly the cards that are not buried and
\* due on or before date, start_all_review exactly the cards that are not buried;
\* no index appears twice.
C10_StartSelection ==
    LET Unburied == {i \in 0 .. Len(cards) - 1 : ~CardAt(cards, i).fsrs_state.buried}
        Due == {i \in Unburied : CardAt(cards, i).fsrs_state.review_date <= last.date}
    IN  /\ last.op = "start_review" =>
              SeqSet(review_indices) = Due /\ NoDuplicates(review_indices)
        /\ last.op = "start_all_review" =>
              SeqSet(review_indices) = Unburied /\ NoDuplicates(review_indices)

\* start_review with a card due exactly on the date, a buried card and a card
\* that is not due yet
C10_DueTodayBuriedAndLater ==
    /\ last.op = "start_review"
    /\ \E i \in SeqSet(review_indices) :
          CardAt(cards, i).fsrs_state.review_date = last.date
    /\ \E i \in 1 .. Len(cards) : cards[i].fsrs_state.buried
    /\ \E i \in 1 .. Len(cards) :
          ~cards[i].fsrs_state.buried /\ cards[i].fsrs_state.review_date > last.date

Replaced == last.op = "replace_cards"
SameIdentity(a, b) == a.prefix = b.prefix /\ a.front = b.front
HasIdentity(cs, content) ==
    \E j \in 1 .. Len(cs) : SameIdentity(cs[j].content, content)
CountIdentity(cs, content) ==
    Cardinality({j \in 1 .. Len(cs) : SameIdentity(cs[j].content, content)})
CountFront(cs, front) ==
    Cardinality({j \in 1 .. Len(cs) : cs[j].content.front = front})
\* The first card of cs with the identity of content
FirstWithIdentity(cs, content) ==
    cs[CHOOSE j \in 1 .. Len(cs) :
          /\ SameIdentity(cs[j].content, content)
          /\ \A h \in 1 .. j - 1 : ~SameIdentity(cs[h].content, content)]
\* Content equality up to the editable flag, which duplicates clear
SameContent(a, b) == [a EXCEPT !.editable = TRUE] = [b EXCEPT !.editable = TRUE]
MemoryStates(cs) == [i \in 1 .. Len(cs) |-> cs[i].fsrs_state]
RECURSIVE BagOf(_)
BagOf(seq) ==
    IF seq = <<>> THEN EmptyBag ELSE SetToBag({Head(seq)}) (+) BagOf(Tail(seq))

\* C4: in replace_cards, a deck card whose identity (prefix, front) exists in the
\* new collection stays in the deck with its whole MemoryState and carries the
\* content of the new entry with that identity.
C4_IdentityInCollectionKeepsState ==
    Replaced =>
      \A i \in 1 .. Len(prev.cards) :
        LET old == prev.cards[i]
        IN  HasIdentity(last.arg, old.content) =>
              \E j \in 1 .. Len(cards) :
                 /\ cards[j].fsrs_state = old.fsrs_state
                 /\ SameContent(cards[j].content,
                                FirstWithIdentity(last.arg, old.content).content)

\* C5: in replace_cards a new identity takes the MemoryState of the first orphan
\* (an earlier one or a card orphaned in this call) with the same front, which
\* leaves orphans, and is fresh when there is none; so after a pure prefix rename
\* of every card of a deck with distinct fronts the orphan list is empty.
C5_OrphanLinkedByFront ==
    Replaced =>
      LET Gone(i) == ~HasIdentity(last.arg, prev.cards[i].content)
          NewAt(j) == ~HasIdentity(prev.cards, cards[j].content)
          Rename ==
            /\ prev.orphans = <<>>
            /\ Len(last.arg) = Len(prev.cards)
            /\ \A i \in 1 .. Len(prev.cards) : Gone(i)
            /\ \A i \in 1 .. Len(prev.cards) :
                 /\ CountFront(prev.cards, prev.cards[i].content.front) = 1
                 /\ CountFront(last.arg, prev.cards[i].content.front) = 1
      IN  /\ Rename => orphans = <<>>
          /\ Rename =>
               \A j \in 1 .. Len(cards) : NewAt(j) =>
                  \E i \in 1 .. Len(prev.cards) :
                     /\ prev.cards[i].content.front = cards[j].content.front
                     /\ prev.cards[i].fsrs_state = cards[j].fsrs_state
          /\ \A j \in 1 .. Len(cards) :
               (/\ NewAt(j)
                /\ \A i \in 1 .. Len(prev.cards) :
                      prev.cards[i].content.front # cards[j].content.front
                /\ \A i \in 1 .. Len(prev.orphans) :
                      prev.orphans[i].content.front # cards[j].content.front)
               => cards[j].fsrs_state =
                      FirstWithIdentity(last.arg, cards[j].content).fsrs_state

\* C6: replace_cards drops no history: the MemoryStates held by cards and orphans
\* before the call are all held afterwards; an old card whose identity is absent
\* from the collection goes to orphans, unless a new card with its front takes
\* its MemoryState; a card leaves orphans only in that way.
C6_HistoryNeverDropped ==
    Replaced =>
      /\ BagOf(MemoryStates(prev.cards \o prev.orphans))
            \sqsubseteq BagOf(MemoryStates(cards \o orphans))
      /\ \A i \in 1 .. Len(prev.cards) :
           LET old == prev.cards[i]
           IN  ~HasIdentity(last.arg, old.content) =>
                 \/ old \in SeqSet(orphans)
                 \/ \E j \in 1 .. Len(cards) :
                       /\ cards[j].fsrs_state = old.fsrs_state
                       /\ cards[j].content.front = old.content.front
      /\ \A i \in 1 .. Len(prev.orphans) :
           LET old == prev.orphans[i]
           IN  \/ old \in SeqSet(orphans)
               \/ \E j \in 1 .. Len(cards) :
                     /\ cards[j].fsrs_state = old.fsrs_state
                     /\ cards[j].content.front = old.content.front
                     /\ ~HasIdentity(prev.cards, cards[j].content)

\* C7: when the collection holds several cards with one identity, replace_cards
\* returns Ok and the deck holds exactly one card with that identity, not
\* editable, with the content of the first of them.
C7_OneSurvivorPerDuplicate ==
    Replaced =>
      /\ last.result = "Ok"
      /\ \A i \in 1 .. Len(last.arg) :
           CountIdentity(last.arg, last.arg[i].content) >= 2 =>
             /\ CountIdentity(cards, last.arg[i].content) = 1
             /\ \A j \in 1 .. Len(cards) :
                  SameIdentity(cards[j].content, last.arg[i].content) =>
                    /\ ~cards[j].content.editable
                    /\ SameContent(cards[j].content,
                           FirstWithIdentity(last.arg, last.arg[i].content).content)

\* C8: replace_cards takes two cards for the same one exactly when prefix and
\* front are both equal: the deck holds one card for each (prefix, front) pair
\* of the collection, editable when the pair occurs once, and a card that was
\* in the deck carries new content only of its own pair.
C8_IdentityIsPrefixAndFront ==
    Replaced =>
      /\ \A i \in 1 .. Len(last.arg) :
           CountIdentity(cards, last.arg[i].content) = 1
      /\ \A j \in 1 .. Len(cards) :
           /\ HasIdentity(last.arg, cards[j].content)
           /\ cards[j].content.editable
                 <=> (CountIdentity(last.arg, cards[j].content) = 1)

\* C9: replace_cards with the same collection twice in a row: the second call
\* adds no orphan and leaves the number of deck cards and every card's
\* MemoryState as they were; from an empty deck no orphan exists after both.
C9_SameCollectionTwice ==
    (Replaced /\ prev.op = "replace_cards" /\ prev.arg = last.arg) =>
      /\ orphans = prev.orphans
      /\ Len(cards) = Len(prev.cards)
      /\ MemoryStates(cards) = MemoryStates(prev.cards)
      /\ nops = MaxOpsReplace - 2 => orphans = <<>>

\* The same collection of two cards given twice to a deck that holds an orphan
C9_TwiceWithOrphan ==
    /\ Replaced
    /\ prev.op = "replace_cards"
    /\ prev.arg = last.arg
    /\ Len(cards) >= 2
    /\ Len(orphans) >= 1

\* C11: when start_random_review(date, N) returns, the active set holds exactly
\* min(N, number of deck cards) indices of deck cards, pairwise distinct, none of
\* a buried card.
C11_RandomReviewSelection ==
    (last.op = "start_random_review" /\ last.result = "Ok") =>
      /\ Len(review_indices) = Min(last.arg[1], Len(cards))
      /\ NoDuplicates(review_indices)
      /\ \A i \in SeqSet(review_indices) :
           i \in 0 .. Len(cards) - 1 /\ ~CardAt(cards, i).fsrs_state.buried

\* start_random_review returned two indices from a deck that holds a buried card
C11_TwoPickedBesideBuried ==
    /\ last.op = "start_random_review"
    /\ last.result = "Ok"
    /\ Len(review_indices) = 2
    /\ \E i \in 1 .. Len(cards) : cards[i].fsrs_state.buried

\* C12: start_random_review(date, N) returns for every deck and every N, also
\* when fewer cards are non-buried than min(N, deck size).
C12_RandomReviewReturns ==
    last.op = "start_random_review" => last.result = "Ok" /\ status = "ok"

\* C13: FSRSState.review with the answer Bury sets buried, returns Discard and
\* changes nothing else, with history tracking on or off, for a card that was
\* never reviewed and for a reviewed one.
C13_BuryTouchesOnlyBuried ==
    \A i \in 1 .. Len(cards), date \in Days, track \in BOOLEAN,
       frac \in UnitFractions :
       review(cards[i].fsrs_state, "Bury", date, track, frac, params)
          = <<[cards[i].fsrs_state EXCEPT !.buried = TRUE], "Discard">>

\* A reviewed card with a review log was buried while history tracking is on
C13_BuriedWithLog ==
    /\ Reviewed
    /\ last.answer = "Bury"
    /\ track_review_history
    /\ cards[last.card + 1].fsrs_state.buried
    /\ cards[last.card + 1].fsrs_state.review_log # <<>>

\* C14: answering the current card with Bury through Deck.review_card leaves
\* the card's MemoryState as it was except for buried = true.
C14_DeckBuryTouchesOnlyBuried ==
    (Reviewed /\ last.answer = "Bury") =>
       cards[last.card + 1].fsrs_state
          = [prev.cards[last.card + 1].fsrs_state EXCEPT !.buried = TRUE]

Rescheduled == last.op = "reschedule" /\ last.result = "Ok"
\* reschedule selects the card: not buried and due before first_day + D
Selected(card, first_day, days) ==
    ~card.fsrs_state.buried /\ card.fsrs_state.review_date < first_day + days
\* The number of non-buried cards before position i (1-based) of cs
UnburiedBefore(cs, i) ==
    Cardinality({j \in 1 .. i - 1 : ~cs[j].fsrs_state.buried})

\* C15: after reschedule(first_day, D, cap) every non-buried card that was due
\* before first_day + D is due within first_day .. first_day + D - 1; every
\* other card keeps its due date; nothing but due dates changes.
C15_RescheduleWithinWindow ==
    Rescheduled =>
      /\ Len(cards) = Len(prev.cards)
      /\ \A i \in 1 .. Len(cards) :
           /\ cards[i] = [prev.cards[i] EXCEPT !.fsrs_state.review_date =
                                                  cards[i].fsrs_state.review_date]
           /\ IF Selected(prev.cards[i], last.date, last.arg[1])
              THEN /\ cards[i].fsrs_state.review_date >= last.date
                   /\ cards[i].fsrs_state.review_date < last.date + last.arg[1]
              ELSE cards[i].fsrs_state.review_date
                      = prev.cards[i].fsrs_state.review_date

\* An overdue card moved into the window beside a card due after the window
C15_OverdueAndLater ==
    /\ Rescheduled
    /\ \E i \in 1 .. Len(cards) :
          /\ ~prev.cards[i].fsrs_state.buried
          /\ prev.cards[i].fsrs_state.review_date < last.date
          /\ cards[i].fsrs_state.review_date >= last.date
    /\ \E i \in 1 .. Len(cards) :
          /\ ~prev.cards[i].fsrs_state.buried
          /\ prev.cards[i].fsrs_state.review_date >= last.date + last.arg[1]

\* C16: reschedule(first_day, D, cap) returns for every deck, D >= 1 and
\* cap >= 0, and then no selected card is left outside the window and no day
\* holds more cards placed than max(cap, ceil(n / D)).
C16_RescheduleReturns ==
    last.op = "reschedule" =>
      /\ last.result = "Ok"
      /\ status = "ok"
      /\ LET sel == {i \in 1 .. Len(cards) :
                        Selected(prev.cards[i], last.date, last.arg[1])}
             e == Max(last.arg[2],
                      (Cardinality(sel) + last.arg[1] - 1) \div last.arg[1])
         IN  \A d \in last.date .. last.date + last.arg[1] - 1 :
                Cardinality({i \in sel : cards[i].fsrs_state.review_date = d}) <= e

\* reschedule with cap 0 and more cards selected than days in the window
C16_CapZeroCrowded ==
    /\ Rescheduled
    /\ last.arg[2] = 0
    /\ Cardinality({i \in 1 .. Len(cards) :
                      Selected(prev.cards[i], last.date, last.arg[1])}) > last.arg[1]

\* C17 as stated: when the non-buried cards are all due on first_day, reschedule
\* leaves the card at deck position i due on first_day + floor(i / e), with
\* e = max(cap, ceil(n / D)).
C17_PositionOverCap ==
    (/\ Rescheduled
     /\ \A i \in 1 .. Len(cards) :
           ~prev.cards[i].fsrs_state.buried =>
              prev.cards[i].fsrs_state.review_date = last.date) =>
      LET n == Cardinality({i \in 1 .. Len(cards) : ~prev.cards[i].fsrs_state.buried})
          e == Max(last.arg[2], (n + last.arg[1] - 1) \div last.arg[1])
      IN  \A i \in 1 .. Len(cards) :
             ~cards[i].fsrs_state.buried =>
                cards[i].fsrs_state.review_date = last.date + ((i - 1) \div e)

\* tests::reschedule_works: 50 cards due on day 0, reschedule(0, 2, 1)
FiftyCards == DeckOf(50, [i \in 1 .. 50 |-> 0])
FiftyRescheduled == reschedule(FiftyCards, 0, 2, 1)

\* C17 with the position counted among the non-buried cards: the card with r
\* non-buried cards before it is due on first_day + floor(r / e); of 50 cards
\* with D = 2 and cap = 1, card 0 stays on first_day and card 25 is due on
\* first_day + 1 (evaluated once, in the initial states).
C17_RankOverCap ==
    /\ (/\ Rescheduled
        /\ \A i \in 1 .. Len(cards) :
              ~prev.cards[i].fsrs_state.buried =>
                 prev.cards[i].fsrs_state.review_date = last.date) =>
         LET n == Cardinality({i \in 1 .. Len(cards) :
                                  ~prev.cards[i].fsrs_state.buried})
             e == Max(last.arg[2], (n + last.arg[1] - 1) \div last.arg[1])
         IN  \A i \in 1 .. Len(cards) :
                ~cards[i].fsrs_state.buried =>
                   cards[i].fsrs_state.review_date
                      = last.date + (UnburiedBefore(cards, i) \div e)
    /\ last.op = "new" =>
         \E r \in {FiftyRescheduled} :
            /\ r.done
            /\ CardAt(r.cards, 0).fsrs_state.review_date = 0
            /\ CardAt(r.cards, 25).fsrs_state.review_date = 1
            /\ \A i \in 0 .. 49 :
                  CardAt(r.cards, i).fsrs_state.review_date = i \div 25

\* Three or more non-buried cards, all due on first_day, spread over two days
\* or more, in a deck with a buried card before them
C17_SpreadBehindBuried ==
    /\ Rescheduled
    /\ \A i \in 1 .. Len(cards) :
          ~prev.cards[i].fsrs_state.buried =>
             prev.cards[i].fsrs_state.review_date = last.date
    /\ prev.cards[1].fsrs_state.buried
    /\ Cardinality({i \in 1 .. Len(cards) : ~cards[i].fsrs_state.buried}) >= 3
    /\ \E i \in 1 .. Len(cards) :
          ~cards[i].fsrs_state.buried /\ cards[i].fsrs_state.review_date > last.date

\* C19: an entry encodes to an i64 with the outcome code in the high 32 bits
\* and the day in the low 32 bits, and from(encode(entry)) is the entry, for
\* each outcome and every i32 day.
C19_LogEntryRoundTrip ==
    /\ last.op = "encode" =>
          last.arg[1] = [hi |-> answer_code(last.answer), lo |-> last.date]
    /\ last.op = "from" =>
          /\ last.result = "Ok"
          /\ last.arg[1] = [answer |-> last.answer, day |-> last.date]

\* C19 for days >= 0: the entry is encoded and decoded as stated
C19_NonNegativeDayRoundTrip ==
    last.date >= 0 => C19_LogEntryRoundTrip

\* C20: format_to_tsv, from_tsv with the same reference date and format_to_tsv
\* again give a row identical to the first, for fronts and backs with tabs and
\* newlines, with or without review-log entries.
C20_TsvRoundTrip ==
    /\ last.op = "from_tsv" => last.result = "Ok"
    /\ (last.op = "format_to_tsv" /\ Len(last.arg) = 2) => last.arg[2] = last.arg[1]

\* C20 for cards whose review-log entries have days >= 0
C20_TsvRoundTripNonNegativeLog ==
    (\A i \in 1 .. Len(cards[1].fsrs_state.review_log) :
        cards[1].fsrs_state.review_log[i].day >= 0) => C20_TsvRoundTrip

\* The generator n calls of next_rand() after g
RECURSIVE advance(_, _)
advance(g, n) == IF n = 0 THEN g ELSE advance(wrapping_add(g, GAMMA), n - 1)

C21_EscapingLossless ==
    /\ \A i \in 1 .. Len(cards) :
          /\ convert_from_singleline(convert_to_singleline(cards[i].content.front))
                = cards[i].content.front
          /\ convert_from_singleline(convert_to_singleline(cards[i].content.back))
                = cards[i].content.back
    /\ (last.op = "from_tsv" /\ last.result = "Ok") =>
          /\ cards[1].content.front = prev.cards[1].content.front
          /\ cards[1].content.back = prev.cards[1].content.back

\* The text holds one of the bracketed forms [\]n and [\]t up to its last letter
Bracketed(text) == \E k \in 1 .. Len(text) : MatchAt(text, k, <<"[", BS, "]">>)

\* C21 for texts without the bracketed forms
C21_EscapingLosslessUnbracketed ==
    (/\ \A i \in 1 .. Len(cards) : ~Bracketed(cards[i].content.front)
     /\ \A i \in 1 .. Len(prev.cards) : ~Bracketed(prev.cards[i].content.front)) =>
      C21_EscapingLossless

\* The input holds a row that format_to_tsv did not write
Malformed(input) == \E k \in 1 .. Len(Lines(input)) : Lines(input)[k] \notin WrittenRows

\* C22: from_tsv and load_from_tsv of malformed row data (a missing field, a
\* field that is no number, a review-log entry with an outcome code outside
\* 0..4) return Err: the program does not abort and no deck is returned.
C22_MalformedRowIsErr ==
    (last.op \in {"from_tsv", "load_from_tsv"} /\ Malformed(last.arg[1])) =>
        /\ last.result = "Err"
        /\ status = "ok"
        /\ cards = <<>>

\* C22 for rows with a missing field or a field that is no number
C22_MissingOrUnparseableIsErr ==
    (\A k \in 1 .. Len(Lines(last.arg[1])) :
        \A code \in UnknownCodes : \A row \in WrittenRows :
           Lines(last.arg[1])[k] # WithLogField(row, I64ToString([hi |-> code, lo |-> 1000])))
      => C22_MalformedRowIsErr

\* The number of cards of the deck due on the day
DueOn(cs, day) == Cardinality({i \in 1 .. Len(cs) : cs[i].fsrs_state.review_date = day})

\* The shift the rule gives for a card due on the day in the deck
ShiftRule(cs, day) ==
    IF DueOn(cs, day) > DueOn(cs, day - 1) /\ DueOn(cs, day + 1) >= DueOn(cs, day - 1)
    THEN 0 - 1
    ELSE IF DueOn(cs, day) > DueOn(cs, day + 1) /\ DueOn(cs, day - 1) > DueOn(cs, day + 1)
         THEN 1
         ELSE 0

\* The deck before the review with the reviewed card's memory state replaced
\* by the one the scheduler computes for one of the fractions
ReviewedWith(frac) ==
    Once({[state |-> res[1], result |-> res[2],
           cards |-> [prev.cards EXCEPT ![last.card + 1].fsrs_state = res[1]]] :
          res \in {review(CardAt(prev.cards, last.card).fsrs_state, last.answer, last.date,
                          track_review_history,
                          next_float(frac, SCALE - RANDOMNESS, SCALE + RANDOMNESS), params)}})

\* The shift of the due date the deck shows against the scheduler's due date
ShiftShown(r) == CardAt(cards, last.card).fsrs_state.review_date - r.state.review_date

\* C29: review_card shifts the due date only on Discard with a new stability
\* above 2.0, by -1 when the same-day count exceeds the day-before count and
\* the day-after count is at least the day-before count, else by +1 when the
\* same-day count exceeds the day-after count and the day-before count exceeds
\* the day-after count, else by 0; on Again the date is not shifted.
C29_ReviewOffsetRule ==
    (last.op = "review_card" /\ last.result \in {"Discard", "Again"}) =>
        \E frac \in UnitFractions : \E r \in {ReviewedWith(frac)} :
            /\ r.result = last.result
            /\ cards = [r.cards EXCEPT ![last.card + 1].fsrs_state.review_date =
                          @ + (IF last.result = "Discard" /\ r.state.stability > 2 * SCALE
                               THEN ShiftRule(r.cards, r.state.review_date)
                               ELSE 0)]

\* The deck is the one the review gives for the fraction, with the due date
\* of the reviewed card moved by the shift
ShownWith(r, shift) ==
    /\ r.result = last.result
    /\ cards = [r.cards EXCEPT ![last.card + 1].fsrs_state.review_date = @ + shift]

\* A Discard with a new stability above 2.0 moved the due date a day earlier,
\* and another one moved it a day later
C29_ShiftedEarlier ==
    /\ last.op = "review_card"
    /\ last.result = "Discard"
    /\ \E frac \in UnitFractions : \E r \in {ReviewedWith(frac)} :
          /\ r.state.stability > 2 * SCALE
          /\ ShownWith(r, 0 - 1)
          /\ \A other \in UnitFractions : \A shift \in {0, 1} :
                ~ShownWith(ReviewedWith(other), shift)

C29_ShiftedLater ==
    /\ last.op = "review_card"
    /\ last.result = "Discard"
    /\ \E frac \in UnitFractions : \E r \in {ReviewedWith(frac)} :
          /\ r.state.stability > 2 * SCALE
          /\ ShownWith(r, 1)
          /\ \A other \in UnitFractions : \A shift \in {0 - 1, 0} :
                ~ShownWith(ReviewedWith(other), shift)

\* A Discard with a new stability of at most 2.0 left the due date on a day
\* from which the rule would have moved it
C29_NotShiftedBelowThreshold ==
    /\ last.op = "review_card"
    /\ last.result = "Discard"
    /\ \E frac \in UnitFractions : \E r \in {ReviewedWith(frac)} :
          /\ r.state.stability <= 2 * SCALE
          /\ ShiftRule(r.cards, r.state.review_date) # 0
          /\ ShownWith(r, 0)

\* After a reschedule that returned: the window, the selected cards, the
\* effective cap, and the assignments in the order they were made
Window == last.date .. last.date + last.arg[1] - 1
SelectedCards == {i \in 1 .. Len(prev.cards) : Selected(prev.cards[i], last.date, last.arg[1])}
EffectiveCap ==
    Max(last.arg[2], (Cardinality(SelectedCards) + last.arg[1] - 1) \div last.arg[1])
Assignments == last.arg[3]
\* The rescheduled cards the day holds in the end, and before assignment k
Holds(day) == Cardinality({i \in SelectedCards : cards[i].fsrs_state.review_date = day})
HeldBefore(k, day) == Cardinality({j \in 1 .. k - 1 : Assignments[j][2] = day})
OriginalDate(k) == prev.cards[Assignments[k][1] + 1].fsrs_state.review_date

\* C30: after reschedule no window day holds more rescheduled cards than the
\* effective cap max(cap, ceil(total / D)); when a card ends d days from its
\* original due date, every window day nearer than d to that date holds
\* exactly the effective cap; and a card is put d days later only when the day
\* d days earlier is outside the window or had no spare capacity at that time.
C30_MinimalDistanceEarlierFirst ==
    Rescheduled =>
      /\ \A day \in Window : Holds(day) <= EffectiveCap
      /\ \A i \in SelectedCards : \A day \in Window :
            Abs(day - prev.cards[i].fsrs_state.review_date)
               < Abs(cards[i].fsrs_state.review_date - prev.cards[i].fsrs_state.review_date)
            => Holds(day) = EffectiveCap
      /\ {Assignments[k][1] + 1 : k \in 1 .. Len(Assignments)} = SelectedCards
      /\ Len(Assignments) = Cardinality(SelectedCards)
      /\ \A k \in 1 .. Len(Assignments) :
            /\ cards[Assignments[k][1] + 1].fsrs_state.review_date = Assignments[k][2]
            /\ HeldBefore(k, Assignments[k][2]) < EffectiveCap
            /\ \A day \in Window :
                  (\/ Abs(day - OriginalDate(k)) < Abs(Assignments[k][2] - OriginalDate(k))
                   \/ /\ Abs(day - OriginalDate(k)) = Abs(Assignments[k][2] - OriginalDate(k))
                      /\ day < Assignments[k][2])
                  => HeldBefore(k, day) = EffectiveCap

\* A card was put a day or more earlier while the day as far later was in the
\* window with spare capacity, and another card was put later because the
\* day as far earlier was full
C30_EarlierChosenLaterWhenFull ==
    /\ Rescheduled
    /\ \E k \in 1 .. Len(Assignments) :
          /\ Assignments[k][2] < OriginalDate(k)
          /\ 2 * OriginalDate(k) - Assignments[k][2] \in Window
          /\ HeldBefore(k, 2 * OriginalDate(k) - Assignments[k][2]) < EffectiveCap
    /\ \E k \in 1 .. Len(Assignments) :
          /\ Assignments[k][2] > OriginalDate(k)
          /\ 2 * OriginalDate(k) - Assignments[k][2] \in Window

\* The first position from the given one where the pattern stands, 0 if none
FirstAt(text, pat, from) ==
    IF \E i \in from .. Len(text) : MatchAt(text, i, pat)
    THEN CHOOSE i \in from .. Len(text) :
            /\ MatchAt(text, i, pat)
            /\ \A j \in from .. i - 1 : ~MatchAt(text, j, pat)
    ELSE 0

RECURSIVE SpansFrom(_, _)
\* The complete triple-brace spans of the text from the position on: a span
\* starts at its opening delimiter and stops with the first closing delimiter
\* after that; its hidden text lies between them, without the backslash when
\* one stands before the closing delimiter
SpansFrom(text, from) ==
    IF FirstAt(text, BRACE_OPEN, from) = 0 THEN <<>>
    ELSE LET start == FirstAt(text, BRACE_OPEN, from)
             close == FirstAt(text, BRACE_CLOSE, start)
             escaped == text[close - 1] = BS
         IN  IF close = 0 THEN <<>>
             ELSE <<[start |-> start, stop |-> close + 2, escaped |-> escaped,
                     hidden |-> SubSeq(text, start + 3,
                                       IF escaped THEN close - 2 ELSE close - 1)]>>
                  \o SpansFrom(text, close + 3)

RECURSIVE Plain(_, _, _, _, _)
\* The text from pos up to span i (to the end when there is no span i), with
\* the spans from k on before it replaced by their hidden texts
Plain(text, spans, k, pos, i) ==
    IF k > Len(spans) THEN SubSeq(text, pos, Len(text))
    ELSE IF k = i THEN SubSeq(text, pos, spans[i].start - 1)
    ELSE SubSeq(text, pos, spans[k].start - 1) \o spans[k].hidden
         \o Plain(text, spans, k + 1, spans[k].stop + 1, i)

\* The front of the card derived from span i of the root's back
DerivedFront(root, spans, i) ==
    root.content.front \o <<NL, NL>>
    \o Plain(root.content.back, spans, 1, 1, i)
    \o PLACEHOLDER
    \o Plain(root.content.back, spans, i + 1, spans[i].stop + 1, 0)

\* C23: a root whose back holds n >= 1 complete triple-brace spans expands into
\* exactly n derived cards in span order: card i has child_index i, the hidden
\* text of span i as its back, and as its front the root's front, two
\* newlines, the text before the span with the sibling markers replaced by
\* their hidden texts, the placeholder, and the text after the span rendered
\* the same way; its base is the index of its root in base_cards, where the
\* root stands once.
C23_DerivedCards ==
    last.op = "from" =>
      \A q \in 1 .. Len(last.arg) :
         \E spans \in {SpansFrom(last.arg[q].content.back, 1)} :
            Len(spans) >= 1 =>
               \E b \in 0 .. Len(base_cards) - 1 : \E o \in 0 .. Len(cards) - Len(spans) :
                  /\ base_cards[b + 1] = last.arg[q]
                  /\ Cardinality({c \in 1 .. Len(base_cards) : base_cards[c] = last.arg[q]})
                        = Cardinality({r \in 1 .. Len(last.arg) : last.arg[r] = last.arg[q]})
                  /\ Cardinality({k \in 1 .. Len(cards) : cards[k].content.base = b})
                        = Len(spans)
                  /\ \A i \in 1 .. Len(spans) :
                        /\ cards[o + i].content.child_index = i - 1
                        /\ cards[o + i].content.base = b
                        /\ cards[o + i].content.back = spans[i].hidden
                        /\ cards[o + i].content.front = DerivedFront(last.arg[q], spans, i)

\* Two roots were expanded, the first with two spans or more
C23_TwoSpans ==
    /\ last.op = "from"
    /\ Len(SpansFrom(last.arg[1].content.back, 1)) >= 2
    /\ Len(last.arg) = 2
    /\ Len(base_cards) = 2

\* The items the iterator has yielded from the back of the first root
YieldedItems == IF last.op = "next" THEN session.items ELSE <<>>
IteratedBack == last.arg[1].content.back
\* The closing delimiter of the item: the first one from its start
CloseOf(item) == FirstAt(IteratedBack, BRACE_CLOSE, item.cloze_start + 1)
EscapedItem(item) == IteratedBack[CloseOf(item) - 1] = BS
Exhausted == last.op = "next" /\ last.result = "None"

\* C24 as stated: when a backslash stands before the closing delimiter the
\* hidden text leaves the backslash out and the span consumed ends one
\* character after the closing delimiter; the back {{{test}\}}}} has exactly
\* one span, with the hidden text test}.
C24_EscapedDelimiterExtended ==
    /\ \A k \in 1 .. Len(YieldedItems) :
          EscapedItem(YieldedItems[k]) =>
             /\ YieldedItems[k].clozed
                   = SubSeq(IteratedBack, YieldedItems[k].cloze_start + 4,
                            CloseOf(YieldedItems[k]) - 2)
             /\ YieldedItems[k].cloze_end = CloseOf(YieldedItems[k]) + 2 + 1
    /\ (Exhausted /\ IteratedBack = TestBack) =>
          /\ Len(YieldedItems) = 1
          /\ YieldedItems[1].clozed = <<"t", "e", "s", "t", "}">>

\* C24 with the span consumed ending at the closing delimiter: the hidden text
\* leaves the backslash out, the text after the span starts right after the
\* delimiter; the back {{{test}\}}}} has exactly one span, with the hidden
\* text test}, and its last brace is left after the span.
C24_EscapedDelimiter ==
    /\ \A k \in 1 .. Len(YieldedItems) :
          EscapedItem(YieldedItems[k]) =>
             /\ YieldedItems[k].clozed
                   = SubSeq(IteratedBack, YieldedItems[k].cloze_start + 4,
                            CloseOf(YieldedItems[k]) - 2)
             /\ YieldedItems[k].cloze_end = CloseOf(YieldedItems[k]) + 2
             /\ YieldedItems[k].after
                   = SubSeq(IteratedBack, CloseOf(YieldedItems[k]) + 3, Len(IteratedBack))
    /\ (Exhausted /\ IteratedBack = TestBack) =>
          /\ Len(YieldedItems) = 1
          /\ YieldedItems[1].clozed = <<"t", "e", "s", "t", "}">>
          /\ YieldedItems[1].after = <<"}">>

\* The iterator went through the back {{{test}\}}}}
C24_TestBackExhausted ==
    /\ Exhausted
    /\ IteratedBack = TestBack
    /\ Len(YieldedItems) = 1
    /\ EscapedItem(YieldedItems[1])

\* The text holds a complete span: an opening delimiter with a closing one
\* after it
HasSpan(text, open, close) ==
    \E i \in 1 .. Len(text) : \E j \in i + 3 .. Len(text) :
        MatchAt(text, i, open) /\ MatchAt(text, j, close)
HasClozeSpan(text) ==
    HasSpan(text, BRACE_OPEN, BRACE_CLOSE) \/ HasSpan(text, PAREN_OPEN, PAREN_CLOSE)

\* C25: each root given to CardCollection::from stays reviewable: a root whose
\* back has no complete cloze span is itself among cards, unchanged, and not
\* in base_cards, and every root in base_cards has a derived card in cards.
C25_RootsStayReviewable ==
    last.op = "from" =>
      /\ \A q \in 1 .. Len(last.arg) :
            ~HasClozeSpan(last.arg[q].content.back) =>
               /\ \E k \in 1 .. Len(cards) : cards[k] = last.arg[q]
               /\ \A b \in 1 .. Len(base_cards) : base_cards[b] # last.arg[q]
      /\ \A b \in 1 .. Len(base_cards) :
            \E k \in 1 .. Len(cards) : cards[k].content.base = b - 1

\* C25 for roots whose back does not hold a closing delimiter before every
\* opening one of the same kind
C25_RootsStayReviewableOrdered ==
    (\A q \in 1 .. Len(last.arg) :
        /\ (Contains(last.arg[q].content.back, BRACE_OPEN)
            /\ Contains(last.arg[q].content.back, BRACE_CLOSE))
           => HasSpan(last.arg[q].content.back, BRACE_OPEN, BRACE_CLOSE))
      => C25_RootsStayReviewable

\* After edit_base_card: the base card index, the card given and the card stored
Edited == last.op = "edit_base_card"
EditedBase == last.card
GivenCard == last.arg[1]
StoredCard == base_cards[EditedBase + 1]

\* The contents derived from the stored card: one per span of its back, or the
\* card's own content when its back has no span
DerivedContents ==
    LET spans == SpansFrom(StoredCard.content.back, 1)
    IN  IF spans = <<>> THEN <<[StoredCard.content EXCEPT !.base = EditedBase]>>
        ELSE [i \in 1 .. Len(spans) |->
                [prefix |-> StoredCard.content.prefix,
                 front |-> DerivedFront(StoredCard, spans, i),
                 back |-> spans[i].hidden,
                 editable |-> FALSE,
                 base |-> EditedBase,
                 child_index |-> i - 1]]

\* The positions of the cards that had the edited base and the child index
\* before the edit
MatchesOf(child_index) ==
    {j \in 1 .. Len(prev.cards) :
        /\ prev.cards[j].content.base = EditedBase
        /\ prev.cards[j].content.child_index = child_index}
FirstOf(S) == CHOOSE j \in S : \A other \in S : j <= other
\* The derived contents for which no card was there before the edit, in order
RECURSIVE UnmatchedFrom(_, _)
UnmatchedFrom(derived, k) ==
    IF k > Len(derived) THEN <<>>
    ELSE IF MatchesOf(derived[k].child_index) = {}
    THEN <<derived[k]>> \o UnmatchedFrom(derived, k + 1)
    ELSE UnmatchedFrom(derived, k + 1)
\* The content but for its base link
Unlinked(content) == [content EXCEPT !.base = 0]

\* C26: edit_base_card(b, card) replaces base_cards[b] and derives again: a
\* derived card whose child_index is that of a deck card with base b
\* overwrites the content of that card, whose MemoryState stays; a derived
\* card without such a card is appended with a fresh MemoryState; the cards of
\* other base cards are untouched.
C26_EditBaseCardInPlace ==
    Edited =>
      \E derived \in {DerivedContents} : \E new \in {UnmatchedFrom(derived, 1)} :
        /\ Len(base_cards) = Len(prev.base_cards)
        /\ \A c \in 1 .. Len(base_cards) :
              c # EditedBase + 1 => base_cards[c] = prev.base_cards[c]
        /\ StoredCard.fsrs_state = GivenCard.fsrs_state
        /\ StoredCard.content.front
              \in {GivenCard.content.front, Append(GivenCard.content.front, NL)}
        /\ StoredCard.content.back
              \in {GivenCard.content.back, Append(GivenCard.content.back, NL)}
        /\ \A k \in 1 .. Len(derived) :
              MatchesOf(derived[k].child_index) # {} =>
                 \E j \in {FirstOf(MatchesOf(derived[k].child_index))} :
                    /\ cards[j].content = derived[k]
                    /\ cards[j].fsrs_state = prev.cards[j].fsrs_state
        /\ Len(cards) = Len(prev.cards) + Len(new)
        /\ \A u \in 1 .. Len(new) :
              /\ Unlinked(cards[Len(prev.cards) + u].content) = Unlinked(new[u])
              /\ cards[Len(prev.cards) + u].fsrs_state
                    = FSRSState_new(GivenCard.fsrs_state.date_added)
        /\ \A j \in 1 .. Len(prev.cards) :
              prev.cards[j].content.base # EditedBase => cards[j] = prev.cards[j]

\* An edit overwrote a card added on another day, appended a card,
\* and left the card of another base card alone
C26_OverwrittenAndAppended ==
    /\ Edited
    /\ Len(cards) > Len(prev.cards)
    /\ \E j \in 1 .. Len(prev.cards) :
          /\ prev.cards[j].content.base = EditedBase
          /\ cards[j].content # prev.cards[j].content
          /\ cards[j].fsrs_state.date_added # GivenCard.fsrs_state.date_added
    /\ GivenCard.fsrs_state # FSRSState_new(GivenCard.fsrs_state.date_added)
    /\ \E j \in 1 .. Len(prev.cards) :
          /\ prev.cards[j].content.base # EditedBase
          /\ prev.cards[j].content.base # None

\* C27: edit_base_card removes no card: the deck cards with base b whose
\* child_index the edit does not produce stay as they are, and the number of
\* deck cards does not decrease.
C27_EditRemovesNoCard ==
    Edited =>
      /\ Len(cards) >= Len(prev.cards)
      /\ \A j \in 1 .. Len(prev.cards) :
            (/\ prev.cards[j].content.base = EditedBase
             /\ \A k \in 1 .. Len(DerivedContents) :
                   DerivedContents[k].child_index # prev.cards[j].content.child_index)
            => cards[j] = prev.cards[j]

\* After two edits a card of the edited base card is left whose child_index
\* the last edit did not produce
C27_StaleChildKept ==
    /\ Edited
    /\ prev.op = "edit_base_card"
    /\ \E j \in 1 .. Len(prev.cards) :
          /\ prev.cards[j].content.base = EditedBase
          /\ prev.cards[j].content.child_index >= Len(DerivedContents)
          /\ cards[j] = prev.cards[j]

\* The application before the last call of ApplicationState::process
Was == session.was

\* C28: Undo puts current_state back to the state it had before the most
\* recent action that is still applied, and a Redo that follows puts it to the
\* state that action had produced; Undo with nothing to undo and Redo with
\* nothing to redo leave current_state as it is.
C28_UndoRedoRestore ==
    /\ last.op = "Undo" =>
          app.current_state = IF Was.undo_index = 0 THEN Was.current_state
                              ELSE session.before[Was.undo_index]
    /\ last.op = "Redo" =>
          IF Was.undo_index = Len(Was.undo_history)
          THEN app.current_state = Was.current_state
          ELSE prev.op = "Undo" => app.current_state = session.after[Was.undo_index + 1]

\* The cards were rescheduled by random_reschedule_fractional
Resampling == last.op = "random_reschedule_fractional"
DaysBefore(i) == prev.cards[i].fsrs_state.review_date - prev.cards[i].fsrs_state.last_review
\* The days from the last review that the factor gives for the days d
Resampled(d, factor) == Max(Round(Mul(d * SCALE, factor)), 1)
SameLastReview(a, b) ==
    /\ ~cards[a].fsrs_state.buried
    /\ ~cards[b].fsrs_state.buried
    /\ cards[a].fsrs_state.last_review = cards[b].fsrs_state.last_review

\* C31 as claimed: random_reschedule_fractional keeps the order of the due
\* dates of any two non-buried cards with the same last_review, buried cards
\* keep their due date, and every resampled due date is at least
\* last_review + 1.
C31_OrderPreserved ==
    Resampling =>
      /\ \A a, b \in 1 .. Len(cards) :
            (/\ SameLastReview(a, b)
             /\ prev.cards[a].fsrs_state.review_date <= prev.cards[b].fsrs_state.review_date)
            => cards[a].fsrs_state.review_date <= cards[b].fsrs_state.review_date
      /\ \A i \in 1 .. Len(cards) :
            IF cards[i].fsrs_state.buried THEN cards[i] = prev.cards[i]
            ELSE cards[i].fsrs_state.review_date >= cards[i].fsrs_state.last_review + 1

\* C31 as it holds: the order of the due dates of two non-buried cards with
\* the same last_review is kept when the longest resampled interval of the
\* first is not above the shortest one of the second; every resampled interval
\* lies between those of the factors 1 - f and 1 + f; buried cards keep their
\* due date, and every resampled due date is at least last_review + 1.
C31_OrderKeptWhenApart ==
    Resampling =>
      \E f \in {last.arg[1]} :
      /\ \A a, b \in 1 .. Len(cards) :
            (/\ SameLastReview(a, b)
             /\ Resampled(DaysBefore(a), SCALE + f) <= Resampled(DaysBefore(b), SCALE - f))
            => cards[a].fsrs_state.review_date <= cards[b].fsrs_state.review_date
      /\ \A i \in 1 .. Len(cards) :
            IF cards[i].fsrs_state.buried THEN cards[i] = prev.cards[i]
            ELSE /\ cards[i].fsrs_state.review_date >= cards[i].fsrs_state.last_review + 1
                 /\ cards[i].fsrs_state.review_date - cards[i].fsrs_state.last_review
                       \in Resampled(DaysBefore(i), SCALE - f)
                           .. Resampled(DaysBefore(i), SCALE + f)
                 /\ [cards[i] EXCEPT !.fsrs_state.review_date = 0]
                       = [prev.cards[i] EXCEPT !.fsrs_state.review_date = 0]

\* Two cards with the same last_review, due ten and eleven days after it,
\* were both moved, the first to a later day and still before the second,
\* beside a buried card and a new card
C31_MovedAndStillOrdered ==
    /\ Resampling
    /\ cards[NumCardsFractional].fsrs_state.buried
    /\ \E a, b \in 1 .. Len(cards) :
          /\ SameLastReview(a, b)
          /\ DaysBefore(a) = 10
          /\ DaysBefore(b) = 11
          /\ cards[a].fsrs_state.review_date > prev.cards[a].fsrs_state.review_date
          /\ cards[b].fsrs_state.review_date # prev.cards[b].fsrs_state.review_date
          /\ cards[a].fsrs_state.review_date <= cards[b].fsrs_state.review_date

\* C32: FSRSState.review with Again, Hard, Good or Easy and history tracking on
\* appends exactly one (date, outcome) entry at the end of review_log, changes
\* no earlier entry and leaves complete_history as it was; with tracking off it
\* leaves review_log as it was and sets complete_history to false, so that no
\* review sets complete_history back to true; Bury appends no entry.
C32_LogGrowsByOneEntry ==
    \A i \in 1 .. Len(cards), answer \in ReviewAnswer, date \in Days,
       track \in BOOLEAN, frac \in UnitFractions :
       \A s \in {cards[i].fsrs_state} :
       \A r \in {review(s, answer, date, track, frac, params)[1]} :
          /\ answer = "Bury" =>
                /\ r.review_log = s.review_log
                /\ r.complete_history = s.complete_history
          /\ (answer # "Bury" /\ track) =>
                /\ r.review_log
                      = Append(s.review_log, [answer |-> answer, day |-> date])
                /\ r.complete_history = s.complete_history
          /\ (answer # "Bury" /\ ~track) =>
                /\ r.review_log = s.review_log
                /\ ~r.complete_history
          /\ r.complete_history => s.complete_history

\* A card's second tracked review put a second entry after the first
C32_SecondEntryAppended ==
    /\ Reviewed
    /\ last.answer # "Bury"
    /\ track_review_history
    /\ Len(cards[last.card + 1].fsrs_state.review_log) = 2
    /\ cards[last.card + 1].fsrs_state.review_log[2]
          = [answer |-> last.answer, day |-> last.date]
    /\ cards[last.card + 1].fsrs_state.review_log[1]
          = prev.cards[last.card + 1].fsrs_state.review_log[1]

\* One step of a deck seen from card i: answered holds when the step is a review
\* of that card with Again, Hard, Good or Easy
C33_StepOfCard(i) ==
    LET s == cards[i].fsrs_state
        t == cards'[i].fsrs_state
        answered == /\ last'.op = "review_card"
                    /\ last'.result # "Panic"
                    /\ last'.card = i - 1
                    /\ last'.answer # "Bury"
                    /\ nops' < nops
        initial == handle_initial_review(s, last'.answer, last'.date, SCALE,
                                         params)[1]
    IN  /\ answered => ~first_review(t)
        /\ ~answered => (first_review(t) <=> first_review(s))
        /\ (answered /\ first_review(s)) =>
              /\ t.stability = initial.stability
              /\ t.difficulty = initial.difficulty
              /\ t.last_review = last'.date

\* C33: a card is unreviewed (first_review() is true) from its creation until
\* its first review with Again, Hard, Good or Easy; that review is handled by
\* the initial-review rules; afterwards first_review() is false and stays
\* false under every later review, with or without history tracking, and a
\* Bury does not change first_review().
C33_UnreviewedUntilFirstAnswer ==
    /\ \A i \in 1 .. Len(cards) : first_review(cards[i].fsrs_state)
    /\ [][\A i \in 1 .. Len(cards) : C33_StepOfCard(i)]_vars

\* A card reviewed before was answered again with history tracking off
C33_AnsweredAgainUntracked ==
    /\ Reviewed
    /\ last.answer # "Bury"
    /\ ~track_review_history
    /\ ~first_review(prev.cards[last.card + 1].fsrs_state)
    /\ ~first_review(cards[last.card + 1].fsrs_state)

\* C40: no review call, with any outcome including Bury and from any state a
\* sequence of reviews leads to, reaches the "unexpected bury" panic of
\* grade_f64 or of handle_initial_review: every call returns Again or Discard.
C40_NoUnexpectedBury ==
    \A i \in 1 .. Len(cards), answer \in ReviewAnswer, date \in Days,
       track \in BOOLEAN, frac \in UnitFractions :
       review(cards[i].fsrs_state, answer, date, track, frac, params)[2]
          \in {"Again", "Discard"}

\* A card that was never reviewed was buried through the deck
C40_UnreviewedCardBuried ==
    /\ Reviewed
    /\ last.answer = "Bury"
    /\ last.result = "Discard"
    /\ first_review(cards[last.card + 1].fsrs_state)
    /\ cards[last.card + 1].fsrs_state.buried

\* C34: a card answered Hard, Good or Easy through Deck.review_card in a session
\* on day D is no longer due on day D: its review_date is after D, so that a
\* due-only session started again on day D does not select it.
C34_AnsweredCardLeavesTheDay ==
    (Reviewed /\ last.answer \in {"Hard", "Good", "Easy"}) =>
        /\ cards[last.card + 1].fsrs_state.review_date > last.date
        /\ ~is_after(last.date, cards[last.card + 1].fsrs_state.review_date)

\* C35: from_tsv(format_to_tsv(card)) with the same reference date has the
\* review_date, date_added, last_review, complete_history and review_log of the
\* card, for empty and non-empty logs, with complete_history true or false.
C35_RowRestoresMemoryState ==
    (last.op = "from_tsv" /\ prev.op = "format_to_tsv") =>
        /\ last.result = "Ok"
        /\ \A s \in {prev.cards[1].fsrs_state} : \A t \in {cards[1].fsrs_state} :
              /\ t.review_date = s.review_date
              /\ t.date_added = s.date_added
              /\ t.last_review = s.last_review
              /\ t.complete_history = s.complete_history
              /\ t.review_log = s.review_log

\* C35 without complete_history, for cards whose log entries have days >= 0
C35_RowRestoresDatesAndLog ==
    (/\ last.op = "from_tsv"
     /\ prev.op = "format_to_tsv"
     /\ \A i \in 1 .. Len(prev.cards[1].fsrs_state.review_log) :
           prev.cards[1].fsrs_state.review_log[i].day >= 0) =>
        /\ last.result = "Ok"
        /\ \A s \in {prev.cards[1].fsrs_state} : \A t \in {cards[1].fsrs_state} :
              /\ t.review_date = s.review_date
              /\ t.date_added = s.date_added
              /\ t.last_review = s.last_review
              /\ t.complete_history = first_review(s)
              /\ t.review_log = s.review_log

\* The k-th spans of the two iterators agree in everything but the text after
C36_SpansAgree(k) ==
    LET item == session.paren.items[k]
        other == session.brace.items[k]
    IN  /\ with_braces(item.before) = other.before
        /\ with_braces(item.clozed) = other.clozed
        /\ item.cloze_start = other.cloze_start
        /\ item.cloze_end = other.cloze_end

\* C36 as stated: triple-paren iteration behaves like triple-brace iteration
\* with the delimiters swapped: for a text without braces the two span
\* sequences have the same length and their spans have the same before text,
\* hidden text and after text and the same marker start and end offsets.
C36_ParenLikeBrace ==
    (last.op = "next") =>
        /\ Len(session.paren.items) = Len(session.brace.items)
        /\ last.result[1] = last.result[2]
        /\ \A k \in 1 .. Len(session.paren.items) :
              /\ C36_SpansAgree(k)
              /\ with_braces(session.paren.items[k].after) = session.brace.items[k].after

\* C36 (amended): the two span sequences have the same length and their spans
\* have the same before text, hidden text and marker start and end offsets;
\* the after text of a triple-paren span is empty, that of the triple-brace
\* span is the text from the end of the marker on.
C36_ParenLikeBraceButAfter ==
    (last.op = "next") =>
        /\ Len(session.paren.items) = Len(session.brace.items)
        /\ last.result[1] = last.result[2]
        /\ \A k \in 1 .. Len(session.paren.items) :
              /\ C36_SpansAgree(k)
              /\ session.paren.items[k].after = <<>>
              /\ session.brace.items[k].after
                    = SubSeq(with_braces(last.arg[1]),
                             session.brace.items[k].cloze_end + 1,
                             Len(with_braces(last.arg[1])))

\* Both iterators gave two spans, the first with an escaped closing delimiter
\* and with text after it
C36_TwoParenSpans ==
    /\ last.op = "next"
    /\ Len(session.paren.items) = 2
    /\ Len(session.brace.items) = 2
    /\ session.paren.items[1].clozed = <<"a", ")">>
    /\ session.brace.items[1].after # <<>>

\* C38: after edit_base_card(b, card) every deck card the edit produced,
\* updated in place or appended, has base = b, for every valid b.
C38_ProducedCardsLinkToBase ==
    Edited =>
        \A j \in 1 .. Len(cards) :
           (j > Len(prev.cards) \/ cards[j].content # prev.cards[j].content) =>
              cards[j].content.base = EditedBase

\* C38 for the cards updated in place only
C38_UpdatedCardsLinkToBase ==
    Edited =>
        \A j \in 1 .. Len(prev.cards) :
           cards[j].content # prev.cards[j].content =>
              cards[j].content.base = EditedBase

\* C39: the result of replace_cards is a function of the deck and the
\* collection alone: whatever the order in which the map of new cards is
\* visited, the deck's cards, their order and the orphans are the same, also
\* when new cards share a front under different prefixes.
C39_ReplaceIsAFunction ==
    (last.op = "replace_cards") =>
        \A adopted \in {replace_adopted(prev.cards, prev.orphans, last.arg)} :
        \A order \in IterationOrders(adopted.map) :
           replace_cards(adopted, order) = [cards |-> cards, orphans |-> orphans]

\* C39 for collections whose new cards all have different fronts
C39_FunctionWhenFrontsDiffer ==
    (/\ last.op = "replace_cards"
     /\ \A i, j \in 1 .. Len(last.arg) :
           last.arg[i].content.front = last.arg[j].content.front => i = j)
      => C39_ReplaceIsAFunction

\* C37: after any sequence of Deck operations review_index is Some exactly
\* when the active set is not empty, it is smaller than the length of the
\* active set, and every active index is a valid index into cards, so that
\* get_review_card never reads out of bounds.
C37_NoDanglingIndex ==
    /\ (review_index # None) <=> (review_indices # <<>>)
    /\ (review_index # None) =>
          (review_index >= 0 /\ review_index < Len(review_indices))
    /\ \A k \in 1 .. Len(review_indices) :
          review_indices[k] >= 0 /\ review_indices[k] < Len(cards)

====
